---- MODULE Spec2Model ----
(***************************************************************************)
(* securitydept: the file-backed credential Store (packages/core/src/      *)
(* store.rs), the pending-OAuth table and the login/callback handlers      *)
(* (apps/server/src/state.rs, routes/auth.rs) and the forward-auth         *)
(* validator (apps/server/src/routes/forward_auth.rs, packages/core/src/   *)
(* auth.rs), the sessions (packages/core/src/session.rs), the base URL     *)
(* and the redirect URI (packages/core/src/base_url.rs, oidc.rs), the      *)
(* claims check (packages/core/src/claims_engine.rs), the router and its   *)
(* session layer (apps/server/src/routes/mod.rs, middleware.rs) and the    *)
(* Store's sync task and dropped callers (store.rs), as state machines.    *)
(*                                                                         *)
(* An Option<T> is a sequence of length 0 (None) or 1 (Some(x)).           *)
(* Ids (Uuid::new_v4) are fresh integers; timestamps and mtimes are        *)
(* readings of one wall clock that never runs backwards.                   *)
(***************************************************************************)
EXTENDS Integers, Sequences, FiniteSets, TLC

(* ----------------------------- bounds ---------------------------------- *)

\* total number of Store mutation calls in a run
MaxOps == 2
\* longest id list passed as group_ids / entry_ids
MaxListLen == 2
\* number of HTTP requests to /auth/login and /auth/callback in a run
MaxRequests == 4
\* number of admin mutations that run beside a forward-auth request
MaxAdminCalls == 1
\* number of sessions created through the SessionManager in a run
MaxSessions == 2
\* last reading of the wall clock while sessions are in use
MaxTime == 3
\* largest session TTL given to SessionManager::new
MaxTtl == 2

(* ----------------------------- values ---------------------------------- *)

None == <<>>
Some(x) == <<x>>
IsSome(o) == Len(o) = 1
Unwrap(o) == o[1]

Stores == {"A", "B"}
EntryNames == {"a", "b"}
GroupNames == {"g", "h"}

\* the image of a sequence
Range(seq) == {seq[i] : i \in DOMAIN seq}

\* all sequences over S of length at most n
RECURSIVE SeqsUpTo(_, _)
SeqsUpTo(S, n) ==
    IF n = 0 THEN {<<>>}
    ELSE LET shorter == SeqsUpTo(S, n - 1)
         IN  shorter \cup {Append(q, x) : q \in {r \in shorter : Len(r) = n - 1}, x \in S}

(* ---------------------- auth.rs: the primitives ------------------------- *)

\* hash_password: the Argon2 PHC string of a password; the random salt is left out, as
\* verification depends on the password alone (auth.rs 12-21)
hash_password(password) == <<"$argon2id$", password>>

\* a stored password_hash that is no PHC string
NotPHC == <<"plain", "p">>

\* PasswordHash::new(hash) parses (auth.rs 25-27)
IsPHC(hash) == hash[1] = "$argon2id$"

\* verify_password: Err on a hash that does not parse, else whether the password is the
\* hashed one (auth.rs 24-31)
verify_password(password, hash) ==
    IF ~IsPHC(hash) THEN [err |-> TRUE, ok |-> FALSE]
    ELSE [err |-> FALSE, ok |-> hash = hash_password(password)]

\* hash_token: the SHA-256 hex digest of a token (auth.rs 43-47)
hash_token(token) == <<"sha256", token>>

\* verify_token (auth.rs 50-52)
verify_token(token, stored_hash) == hash_token(token) = stored_hash

(* ------------------------ models.rs: records --------------------------- *)

new_basic(id, name, username, password_hash, group_ids, now) ==
    [id |-> id, name |-> name, kind |-> "basic",
     username |-> Some(username), password_hash |-> Some(password_hash),
     token_hash |-> None, group_ids |-> group_ids,
     created_at |-> now, updated_at |-> now]

new_token(id, name, token_hash, group_ids, now) ==
    [id |-> id, name |-> name, kind |-> "token",
     username |-> None, password_hash |-> None,
     token_hash |-> Some(token_hash), group_ids |-> group_ids,
     created_at |-> now, updated_at |-> now]

Group_new(id, name) == [id |-> id, name |-> name]

DataFile_default == [entries |-> <<>>, groups |-> <<>>]

(* -------------------- Vec helpers used by store.rs --------------------- *)

\* Vec::retain(|x| x != v)
Retain(seq, v) == SelectSeq(seq, LAMBDA x : x # v)

\* iter().any(|x| x == v)
Contains(seq, v) == \E i \in DOMAIN seq : seq[i] = v

\* position of the first record with the given id, 0 when there is none
FindById(seq, id) ==
    IF \E i \in DOMAIN seq : seq[i].id = id
    THEN CHOOSE i \in DOMAIN seq : seq[i].id = id /\ \A j \in 1..(i - 1) : seq[j].id # id
    ELSE 0

\* position of the first record with the given name, 0 when there is none
FindByName(seq, name) ==
    IF \E i \in DOMAIN seq : seq[i].name = name
    THEN CHOOSE i \in DOMAIN seq : seq[i].name = name /\ \A j \in 1..(i - 1) : seq[j].name # name
    ELSE 0

\* insert x into the ascending sequence seq
RECURSIVE InsertSorted(_, _)
InsertSorted(seq, x) ==
    IF seq = <<>> THEN <<x>>
    ELSE IF x < Head(seq) THEN <<x>> \o seq
    ELSE <<Head(seq)>> \o InsertSorted(Tail(seq), x)

\* Vec::sort
RECURSIVE Sort(_)
Sort(seq) == IF seq = <<>> THEN <<>> ELSE InsertSorted(Sort(Tail(seq)), Head(seq))

\* Vec::dedup: drops consecutive repeats
RECURSIVE Dedup(_)
Dedup(seq) ==
    IF Len(seq) <= 1 THEN seq
    ELSE IF seq[1] = seq[2] THEN Dedup(Tail(seq))
    ELSE <<seq[1]>> \o Dedup(Tail(seq))

Ok(data) == [res |-> "Ok", data |-> data]
Err(kind, data) == [res |-> kind, data |-> data]

(* ---------------- store.rs: the mutation closures ---------------------- *)
(* Each closure is applied to the document read under the exclusive file   *)
(* lock and yields [res, data]; data is written back only when res = "Ok". *)

\* the entry's group ids all name a group of the document
GroupIdsKnown(data, gids) ==
    \A j \in DOMAIN gids : \E g \in DOMAIN data.groups : data.groups[g].id = gids[j]

\* the listed entry ids all name an entry of the document
EntryIdsKnown(data, eids) ==
    \A j \in DOMAIN eids : \E e \in DOMAIN data.entries : data.entries[e].id = eids[j]

\* a create_entry that forgets the name check
create_entry_unchecked(data, entry) ==
    IF ~GroupIdsKnown(data, entry.group_ids)
    THEN Err("GroupNotFound", data)
    ELSE Ok([data EXCEPT !.entries = Append(@, entry)])

\* Store::create_entry, closure (store.rs 104-120)
create_entry_op(data, entry) ==
    IF \E i \in DOMAIN data.entries : data.entries[i].name = entry.name
    THEN Err("DuplicateEntryName", data)
    ELSE IF ~GroupIdsKnown(data, entry.group_ids)
    THEN Err("GroupNotFound", data)
    ELSE Ok([data EXCEPT !.entries = Append(@, entry)])

\* an update_entry whose name check does not exclude the entry itself
update_entry_strict(data, id, name, username, password_hash, group_ids, now) ==
    IF IsSome(name) /\ \E i \in DOMAIN data.entries : data.entries[i].name = Unwrap(name)
    THEN Err("DuplicateEntryName", data)
    ELSE IF FindById(data.entries, id) = 0
    THEN Err("EntryNotFound", data)
    ELSE Ok(data)

\* Store::update_entry, closure (store.rs 140-179)
update_entry_op(data, id, name, username, password_hash, group_ids, now) ==
    IF IsSome(name)
       /\ \E i \in DOMAIN data.entries :
             data.entries[i].id # id /\ data.entries[i].name = Unwrap(name)
    THEN Err("DuplicateEntryName", data)
    ELSE IF IsSome(group_ids) /\ ~GroupIdsKnown(data, Unwrap(group_ids))
    THEN Err("GroupNotFound", data)
    ELSE IF FindById(data.entries, id) = 0
    THEN Err("EntryNotFound", data)
    ELSE LET k == FindById(data.entries, id)
             e0 == data.entries[k]
             e1 == IF IsSome(name) THEN [e0 EXCEPT !.name = Unwrap(name)] ELSE e0
             e2 == IF IsSome(username) THEN [e1 EXCEPT !.username = username] ELSE e1
             e3 == IF IsSome(password_hash)
                   THEN [e2 EXCEPT !.password_hash = password_hash] ELSE e2
             e4 == IF IsSome(group_ids) THEN [e3 EXCEPT !.group_ids = Unwrap(group_ids)] ELSE e3
             e5 == [e4 EXCEPT !.updated_at = now]
         IN  Ok([data EXCEPT !.entries[k] = e5])

\* Store::delete_entry, closure (store.rs 191-198)
delete_entry_op(data, id) ==
    LET kept == SelectSeq(data.entries, LAMBDA e : e.id # id)
    IN  IF Len(kept) = Len(data.entries)
        THEN Err("EntryNotFound", data)
        ELSE Ok([data EXCEPT !.entries = kept])

\* a create_group that does not look the listed entry ids up
create_group_unchecked(data, group, entry_ids, now) ==
    IF \E g \in DOMAIN data.groups : data.groups[g].name = group.name
    THEN Err("DuplicateGroupName", data)
    ELSE LET touch(e) ==
                 IF Contains(entry_ids, e.id) /\ ~Contains(e.group_ids, group.id)
                 THEN [e EXCEPT !.group_ids = Append(@, group.id), !.updated_at = now]
                 ELSE e
         IN  Ok([entries |-> [i \in DOMAIN data.entries |-> touch(data.entries[i])],
                 groups |-> Append(data.groups, group)])

\* Store::create_group, closure (store.rs 236-263); entry_ids after unwrap_or_default
create_group_op(data, group, entry_ids, now) ==
    IF \E g \in DOMAIN data.groups : data.groups[g].name = group.name
    THEN Err("DuplicateGroupName", data)
    ELSE IF ~EntryIdsKnown(data, entry_ids)
    THEN Err("EntryNotFound", data)
    ELSE LET touch(e) ==
                 IF Contains(entry_ids, e.id) /\ ~Contains(e.group_ids, group.id)
                 THEN [e EXCEPT !.group_ids = Append(@, group.id), !.updated_at = now]
                 ELSE e
         IN  Ok([entries |-> [i \in DOMAIN data.entries |-> touch(data.entries[i])],
                 groups |-> Append(data.groups, group)])

\* an update_group loop body that adds the listed entries and never removes a member
update_group_add_only(e, target_group_id, selected_entry_ids, now) ==
    IF IsSome(selected_entry_ids) /\ Contains(Unwrap(selected_entry_ids), e.id)
       /\ ~Contains(e.group_ids, target_group_id)
    THEN [e EXCEPT !.group_ids = Append(@, target_group_id), !.updated_at = now]
    ELSE e

\* the loop body of Store::update_group over one entry (store.rs 306-325)
update_group_entry(e, target_group_id, selected_entry_ids, now) ==
    LET was_member == Contains(e.group_ids, target_group_id)
        target_member == IF IsSome(selected_entry_ids)
                         THEN Contains(Unwrap(selected_entry_ids), e.id)
                         ELSE was_member
        before == e.group_ids
        retained == Retain(e.group_ids, target_group_id)
        after == IF target_member
                 THEN Dedup(Sort(Append(retained, target_group_id)))
                 ELSE retained
    IN  IF after # before
        THEN [e EXCEPT !.group_ids = after, !.updated_at = now]
        ELSE e

\* Store::update_group, closure (store.rs 282-327)
update_group_op(data, id, name, selected_entry_ids, now) ==
    IF \E g \in DOMAIN data.groups : data.groups[g].id # id /\ data.groups[g].name = name
    THEN Err("DuplicateGroupName", data)
    ELSE IF IsSome(selected_entry_ids) /\ ~EntryIdsKnown(data, Unwrap(selected_entry_ids))
    THEN Err("EntryNotFound", data)
    ELSE IF FindById(data.groups, id) = 0
    THEN Err("GroupNotFound", data)
    ELSE LET k == FindById(data.groups, id)
         IN  Ok([entries |-> [i \in DOMAIN data.entries |->
                                 update_group_entry(data.entries[i], id, selected_entry_ids, now)],
                 groups |-> [data.groups EXCEPT ![k].name = name]])

\* a delete_group that forgets the cascade
delete_group_no_cascade(entries, gid, now) == entries

\* the cascade of Store::delete_group over the entries (store.rs 346-352)
delete_group_cascade(entries, gid, now) ==
    [i \in DOMAIN entries |->
        LET kept == Retain(entries[i].group_ids, gid)
        IN  IF Len(kept) # Len(entries[i].group_ids)
            THEN [entries[i] EXCEPT !.group_ids = kept, !.updated_at = now]
            ELSE entries[i]]

\* a delete_group that strips the memberships but leaves the group
delete_group_keep_group(data, id, now) ==
    IF FindById(data.groups, id) = 0
    THEN Err("GroupNotFound", data)
    ELSE Ok([entries |-> delete_group_cascade(data.entries, id, now),
             groups |-> data.groups])

\* Store::delete_group, closure (store.rs 339-354)
delete_group_op(data, id, now) ==
    IF FindById(data.groups, id) = 0
    THEN Err("GroupNotFound", data)
    ELSE Ok([entries |-> delete_group_cascade(data.entries, id, now),
             groups |-> SelectSeq(data.groups, LAMBDA g : g.id # id)])

(* ----------------- store.rs: the read-only operations ------------------ *)
(* Each takes the read lock on Store.data once and works on that document. *)

\* Store::list_entries (store.rs 86-88)
list_entries(d) == d.entries

\* Store::get_entry (store.rs 90-97)
get_entry(d, id) ==
    IF FindById(d.entries, id) = 0 THEN None ELSE Some(d.entries[FindById(d.entries, id)])

\* Store::entries_by_group_id (store.rs 207-214)
entries_by_group_id(d, group_id) ==
    SelectSeq(d.entries, LAMBDA e : Contains(e.group_ids, group_id))

\* Store::list_groups (store.rs 218-220)
list_groups(d) == d.groups

\* Store::get_group (store.rs 222-229)
get_group(d, id) ==
    IF FindById(d.groups, id) = 0 THEN None ELSE Some(d.groups[FindById(d.groups, id)])

\* Store::find_group_by_name (store.rs 363-366)
find_group_by_name(d, name) ==
    IF FindByName(d.groups, name) = 0 THEN None ELSE Some(d.groups[FindByName(d.groups, name)])

(* ------------------------------ state ---------------------------------- *)

VARIABLES
    fileDoc,        \* the document held by the data file
    fileMtime,      \* the data file's mtime
    xlock,          \* the Store holding the exclusive file lock, or "none"
    clock,          \* the wall clock (Utc::now, mtime source)
    nEntries,       \* entry ids handed out so far (1..nEntries)
    nGroups,        \* group ids handed out so far (11..10+nGroups)
    nOps,           \* mutation calls issued so far
    data,           \* Store.data: the cached DataFile of each Store
    last_modified,  \* Store.last_modified: the cache version of each Store
    io_lock,        \* Store.io_lock: "free", "mut" or "sync"
    pc,             \* position of each Store's mutating caller
    mres,           \* the blocking task's [res, data] of that mutation
    mmod,           \* the mtime the blocking task recorded
    spc,            \* position of each Store's sync task in reload_from_disk_if_changed
    sdata,          \* the document the reload read
    smod,           \* the mtime the reload read
    last,           \* each Store's last mutation: [op, name, res]
    concurrent,     \* the last mutation of this Store overlapped one of another Store
    lastWriter,     \* the Store whose mutation wrote the file last, or "none"
    serialDoc       \* the successful mutations applied one after another, in commit order

storeVars == <<fileDoc, fileMtime, xlock, clock, nEntries, nGroups, nOps, data,
               last_modified, io_lock, pc, mres, mmod, spc, sdata, smod, last, concurrent,
               lastWriter, serialDoc>>

\* the Store and the data file, without the wall clock
storeRest == <<fileDoc, fileMtime, xlock, nEntries, nGroups, nOps, data,
               last_modified, io_lock, pc, mres, mmod, spc, sdata, smod, last, concurrent,
               lastWriter, serialDoc>>

NoRes == [res |-> "none", data |-> DataFile_default]
NoLast == [op |-> "none", name |-> "", res |-> "none"]

\* the clock readings a step may observe: time stands still or moves on
ClockNext == {clock, clock + 1}

\* ids a caller may pass: those handed out so far and 0, which names nothing
EntryIdArgs == 0..nEntries
GroupIdArgs == {0} \cup {10 + k : k \in 1..nGroups}
EntryIdLists == SeqsUpTo(EntryIdArgs, MaxListLen)
GroupIdLists == SeqsUpTo(GroupIdArgs, MaxListLen)

\* an id that repeats the one handed out last
StaleEntryId == nEntries

\* Uuid::new_v4() of AuthEntry::new_basic and new_token: an id no entry has (models.rs 38, 53)
FreshEntryId == nEntries + 1

\* Uuid::new_v4() of Group::new: an id no group has (models.rs 76)
FreshGroupId == 10 + nGroups + 1

\* the mutation calls a client may issue in the current state
Calls ==
    {[op |-> "create_entry", name |-> n,
      entry |-> new_basic(FreshEntryId, n, "u", hash_password("p"), gids, clock)] :
        n \in EntryNames, gids \in GroupIdLists}
    \cup
    {[op |-> "create_entry", name |-> n,
      entry |-> new_token(FreshEntryId, n, hash_token("t"), gids, clock)] :
        n \in EntryNames, gids \in GroupIdLists}
    \cup
    {[op |-> "update_entry", id |-> i, name |-> n, username |-> c[1], password_hash |-> c[2],
      group_ids |-> gids] :
        i \in EntryIdArgs, n \in {None} \cup {Some(x) : x \in EntryNames},
        c \in {<<None, None>>, <<Some("v"), Some(hash_password("q"))>>},
        gids \in {None} \cup {Some(l) : l \in GroupIdLists}}
    \cup
    {[op |-> "delete_entry", id |-> i, name |-> ""] : i \in EntryIdArgs}
    \cup
    {[op |-> "create_group", name |-> n, group |-> Group_new(FreshGroupId, n),
      entry_ids |-> eids] :
        n \in GroupNames, eids \in {None} \cup {Some(l) : l \in EntryIdLists}}
    \cup
    {[op |-> "update_group", id |-> i, name |-> n, entry_ids |-> eids] :
        i \in GroupIdArgs, n \in GroupNames, eids \in {None} \cup {Some(l) : l \in EntryIdLists}}
    \cup
    {[op |-> "delete_group", id |-> i, name |-> ""] : i \in GroupIdArgs}

\* the closure a call hands to mutate_data_file_with_lock, applied to a document
ApplyOp(o, d, now) ==
    CASE o.op = "create_entry" -> create_entry_op(d, o.entry)
      [] o.op = "update_entry" ->
            update_entry_op(d, o.id, o.name, o.username, o.password_hash, o.group_ids, now)
      [] o.op = "delete_entry" -> delete_entry_op(d, o.id)
      [] o.op = "create_group" ->
            create_group_op(d, o.group, IF IsSome(o.entry_ids) THEN Unwrap(o.entry_ids) ELSE <<>>, now)
      [] o.op = "update_group" -> update_group_op(d, o.id, o.name, o.entry_ids, now)
      [] o.op = "delete_group" -> delete_group_op(d, o.id, now)

\* a data file left by earlier runs: a basic entry in group g, a token entry in no group
SeededDoc ==
    [entries |-> <<new_basic(1, "a", "u", hash_password("p"), <<11>>, 0),
                   new_token(2, "b", hash_token("t"), <<>>, 0)>>,
     groups |-> <<Group_new(11, "g")>>]

\* data files written through the Store API or by another process: a basic entry whose
\* password_hash is no PHC string before one with the same username; a basic entry with
\* another password before the matching one, and a token entry whose name has a line break
UnverifiableDoc ==
    [entries |-> <<new_basic(1, "a", "u", NotPHC, <<11>>, 0),
                   new_basic(2, "b", "u", hash_password("p"), <<11>>, 0)>>,
     groups |-> <<Group_new(11, "g")>>]

SameUserDoc ==
    [entries |-> <<new_basic(1, "a", "u", hash_password("q"), <<11>>, 0),
                   new_basic(2, "b", "u", hash_password("p"), <<11>>, 0),
                   new_token(3, "c\n", hash_token("t"), <<11>>, 0)>>,
     groups |-> <<Group_new(11, "g")>>]

FwdDocs == {SeededDoc, UnverifiableDoc, SameUserDoc}

\* the documents the data file may hold when the Stores are loaded
InitDocs == {DataFile_default, SeededDoc}

\* Store::load on each Store: the cache is the document read from the file (store.rs 32-54)
StoreLoaded(docs) ==
    /\ fileDoc \in docs
    /\ fileMtime = 0
    /\ xlock = "none"
    /\ clock = 0
    /\ nEntries = Len(fileDoc.entries)
    /\ nGroups = Len(fileDoc.groups)
    /\ nOps = 0
    /\ data = [s \in Stores |-> fileDoc]
    /\ last_modified = [s \in Stores |-> 0]
    /\ io_lock = [s \in Stores |-> "free"]
    /\ pc = [s \in Stores |-> "idle"]
    /\ mres = [s \in Stores |-> NoRes]
    /\ mmod = [s \in Stores |-> 0]
    /\ spc = [s \in Stores |-> "idle"]
    /\ sdata = [s \in Stores |-> DataFile_default]
    /\ smod = [s \in Stores |-> 0]
    /\ last = [s \in Stores |-> NoLast]
    /\ concurrent = [s \in Stores |-> FALSE]
    /\ lastWriter = "none"
    /\ serialDoc = fileDoc

\* the Stores loaded on a data file left by earlier runs
StoreInit == StoreLoaded(InitDocs)

(* ------------------- store.rs: a mutation, step by step ---------------- *)
(* The arguments of a call are read only by its closure, so the model      *)
(* draws them in the step that runs the closure.                           *)

\* a Store mutation is called and takes the Store's io_lock (store.rs 100, 136, ...)
Call(s) ==
    /\ pc[s] = "idle"
    /\ io_lock[s] = "free"
    /\ nOps < MaxOps
    /\ nOps' = nOps + 1
    /\ io_lock' = [io_lock EXCEPT ![s] = "mut"]
    /\ pc' = [pc EXCEPT ![s] = "io"]
    /\ last' = [last EXCEPT ![s] = NoLast]
    /\ concurrent' = [t \in Stores |->
                        IF t = s THEN \E u \in Stores \ {s} : pc[u] # "idle"
                        ELSE concurrent[t] \/ pc[t] # "idle"]
    /\ UNCHANGED <<fileDoc, fileMtime, xlock, clock, nEntries, nGroups, data,
                   last_modified, mres, mmod, spc, sdata, smod, lastWriter, serialDoc>>

\* a file lock that is granted to whoever asks
GrantedToAll(s) == TRUE

\* flock: an exclusive lock is granted when nobody holds the file (a shared lock is
\* held only inside the one step ReloadRead)
ExclusiveGrantable(s) == xlock = "none"

\* a mutation that works on the Store's cache
ReadStaleCache(s) == data[s]

\* the document a mutation works on: read from the file under the lock (store.rs 528-532)
ReadForMutation(s) == fileDoc

\* mutate_data_file_with_lock: file.lock_exclusive(), then read and parse the file
\* (store.rs 525-532)
LockAndRead(s) ==
    /\ pc[s] = "io"
    /\ ExclusiveGrantable(s)
    /\ xlock' = s
    /\ mres' = [mres EXCEPT ![s] = [res |-> "read", data |-> ReadForMutation(s)]]
    /\ pc' = [pc EXCEPT ![s] = "read"]
    /\ UNCHANGED <<fileDoc, fileMtime, clock, nEntries, nGroups, nOps, data,
                   last_modified, io_lock, mmod, spc, sdata, smod, last, concurrent,
                   lastWriter, serialDoc>>

\* a mutation that writes and installs whatever the closure returned, Ok or Err
WriteWhateverLeft(s, o, now) ==
    /\ pc[s] = "read"
    /\ xlock' = "none"
    /\ LET r == ApplyOp(o, mres[s].data, now)
       IN  /\ nEntries' = IF o.op = "create_entry" THEN nEntries + 1 ELSE nEntries
           /\ nGroups' = IF o.op = "create_group" THEN nGroups + 1 ELSE nGroups
           /\ clock' = now
           /\ fileDoc' = r.data
           /\ fileMtime' = now
           /\ mres' = [mres EXCEPT ![s] = r]
           /\ mmod' = [mmod EXCEPT ![s] = now]
           /\ lastWriter' = s
           /\ serialDoc' = r.data
           /\ last' = [last EXCEPT ![s] = [op |-> o.op, name |-> o.name, res |-> "none"]]
           /\ pc' = [pc EXCEPT ![s] = "unlocked"]
    /\ UNCHANGED <<nOps, data, last_modified, io_lock, spc, sdata, smod, concurrent>>

\* mutate_data_file_with_lock for the call o at clock reading now: apply the closure
\* and, when it succeeds, truncate, write, fsync and record the mtime; then
\* file.unlock(). An Err is returned by `?` and the io guard is dropped
\* (store.rs 533-547, 121)
ApplyAndWriteCall(s, o, now) ==
    /\ pc[s] = "read"
    /\ xlock' = "none"
    /\ LET r == ApplyOp(o, mres[s].data, now)
       IN  /\ nEntries' = IF o.op = "create_entry" THEN nEntries + 1 ELSE nEntries
           /\ nGroups' = IF o.op = "create_group" THEN nGroups + 1 ELSE nGroups
           /\ IF r.res = "Ok"
              THEN /\ clock' = now
                   /\ fileDoc' = r.data
                   /\ fileMtime' = now
                   /\ mres' = [mres EXCEPT ![s] = r]
                   /\ mmod' = [mmod EXCEPT ![s] = now]
                   /\ lastWriter' = s
                   /\ serialDoc' = ApplyOp(o, serialDoc, now).data
                   /\ last' = [last EXCEPT ![s] = [op |-> o.op, name |-> o.name, res |-> "none"]]
                   /\ pc' = [pc EXCEPT ![s] = "unlocked"]
                   /\ UNCHANGED io_lock
              ELSE /\ mres' = [mres EXCEPT ![s] = NoRes]
                   /\ last' = [last EXCEPT ![s] = [op |-> o.op, name |-> o.name, res |-> r.res]]
                   /\ pc' = [pc EXCEPT ![s] = "idle"]
                   /\ io_lock' = [io_lock EXCEPT ![s] = "free"]
                   /\ UNCHANGED <<clock, fileDoc, fileMtime, mmod, lastWriter, serialDoc>>
    /\ UNCHANGED <<nOps, data, last_modified, spc, sdata, smod, concurrent>>

\* mutate_data_file_with_lock for any call a client may have issued (store.rs 533-547)
ApplyAndWrite(s) ==
    /\ pc[s] = "read"
    /\ \E o \in Calls, now \in ClockNext : ApplyAndWriteCall(s, o, now)

\* a mutation that leaves the old document in the cache
KeptCache(s) == data[s]

\* the document a successful mutation puts into the cache (store.rs 123)
InstalledSnapshot(s) == mres[s].data

\* a mutation that leaves the old cache version
KeptVersion(s) == last_modified[s]

\* the cache version a successful mutation records: the mtime its blocking task read
\* after the write (store.rs 124, 542)
InstalledVersion(s) == mmod[s]

\* *self.data.write().await = snapshot; *self.last_modified.write().await = modified;
\* return Ok, dropping the io guard (store.rs 123-125, 182-184, ...)
Install(s) ==
    /\ pc[s] = "unlocked"
    /\ data' = [data EXCEPT ![s] = InstalledSnapshot(s)]
    /\ last_modified' = [last_modified EXCEPT ![s] = InstalledVersion(s)]
    /\ io_lock' = [io_lock EXCEPT ![s] = "free"]
    /\ last' = [last EXCEPT ![s].res = "Ok"]
    /\ mres' = [mres EXCEPT ![s] = NoRes]
    /\ mmod' = [mmod EXCEPT ![s] = 0]
    /\ pc' = [pc EXCEPT ![s] = "idle"]
    /\ UNCHANGED <<fileDoc, fileMtime, xlock, clock, nEntries, nGroups, nOps,
                   spc, sdata, smod, concurrent, lastWriter, serialDoc>>

(* ------------- store.rs: reload_from_disk_if_changed ------------------- *)

\* flock: a shared lock is granted when nobody holds the file exclusively
SharedGrantable(s) == xlock = "none"

\* a watch event or poll tick arrives; the reload takes the io_lock and the blocking
\* task reads under the shared file lock: lock_shared, mtime, content, unlock, parse
\* (store.rs 448-449, 477-499)
ReloadRead(s) ==
    /\ spc[s] = "idle"
    /\ io_lock[s] = "free"
    /\ SharedGrantable(s)
    /\ io_lock' = [io_lock EXCEPT ![s] = "sync"]
    /\ sdata' = [sdata EXCEPT ![s] = fileDoc]
    /\ smod' = [smod EXCEPT ![s] = fileMtime]
    /\ spc' = [spc EXCEPT ![s] = "read"]
    /\ UNCHANGED <<fileDoc, fileMtime, xlock, clock, nEntries, nGroups, nOps, data,
                   last_modified, pc, mres, mmod, last, concurrent, lastWriter, serialDoc>>

\* the reload's test: the cache is current (store.rs 451-452)
CacheIsCurrent(s) == last_modified[s] = smod[s]

\* reload_from_disk_if_changed: no-op when the mtime is the cache version,
\* else replace the cache and the cache version (store.rs 451-459)
ReloadApply(s) ==
    /\ spc[s] = "read"
    /\ IF CacheIsCurrent(s)
       THEN UNCHANGED <<data, last_modified>>
       ELSE /\ data' = [data EXCEPT ![s] = sdata[s]]
            /\ last_modified' = [last_modified EXCEPT ![s] = smod[s]]
    /\ io_lock' = [io_lock EXCEPT ![s] = "free"]
    /\ sdata' = [sdata EXCEPT ![s] = DataFile_default]
    /\ smod' = [smod EXCEPT ![s] = 0]
    /\ spc' = [spc EXCEPT ![s] = "idle"]
    /\ UNCHANGED <<fileDoc, fileMtime, xlock, clock, nEntries, nGroups, nOps,
                   pc, mres, mmod, last, concurrent, lastWriter, serialDoc>>

(* ============ state.rs, routes/auth.rs: the OIDC login flow ============ *)

VARIABLES
    oidc,           \* AppState.oidc is Some: OIDC is enabled
    claims_script,  \* AppState.claims_script is Some
    pkce_enabled,   \* OidcClient.pkce_enabled
    pending_oauth,  \* PendingOauthStore.inner: state -> PendingOauth
    sessions,       \* SessionManager.sessions: session id -> Session
    rq,             \* the requests: handler, position, locals, response
    nTokens,        \* CSRF states generated so far (CsrfToken::new_random)
    nSessions,      \* session ids generated so far (Uuid::new_v4)
    issued,         \* the states sent to a browser in a login redirect
    hits,           \* per state: how many take() calls returned its entry
    sessionBy,      \* per session id: the request that created it
    ttl_seconds     \* SessionManager.ttl_seconds

oauthVars == <<oidc, claims_script, pkce_enabled, pending_oauth, sessions, rq, nTokens,
               nSessions, issued, hits, sessionBy, ttl_seconds>>

\* the login flow without the session table
oauthRest == <<oidc, claims_script, pkce_enabled, pending_oauth, rq, nTokens, issued, hits,
               sessionBy>>

\* SessionManager::new(86400) in the server (main.rs 89)
ServerTtl == 86400

Requests == 1..MaxRequests

\* a request that has not arrived
NoRequest ==
    [kind |-> "none", pc |-> "none", state |-> None, csrf |-> 0, taken |-> None,
     exchange |-> "none", verdict |-> "none", raced |-> FALSE, status |-> 0]

\* the empty HashMap
EmptyMap == [x \in {} |-> 0]

\* HashMap::insert
MapInsert(m, k, v) == [x \in DOMAIN m \cup {k} |-> IF x = k THEN v ELSE m[x]]

\* a take() that leaves the entry in the table
KeepState(m, k) == m

\* HashMap::remove: the table without the key (state.rs 42)
RemoveState(m, k) == [x \in DOMAIN m \ {k} |-> m[x]]

\* a take() that hands out whatever entry the table holds
TakeAnyEntry(m, k) ==
    IF DOMAIN m = {} THEN None ELSE Some(m[CHOOSE x \in DOMAIN m : \A y \in DOMAIN m : x <= y])

\* HashMap::remove: the value removed, if any (state.rs 42)
TakeResult(m, k) == IF k \in DOMAIN m THEN Some(m[k]) ELSE None

\* a callback that goes on whatever the exchange returned
AfterExchangeUnchecked(res, script) == IF script THEN "claims_check" ELSE "create"

\* callback after exchange_code(..).await?: an Err is returned, else the claims script
\* runs when configured (auth.rs 108-120)
AfterExchange(res, script) ==
    IF res # "Ok" THEN "error" ELSE IF script THEN "claims_check" ELSE "create"

\* callback after run_claims_check(..)?: an Err is returned (auth.rs 121)
AfterClaimsCheck(verdict) == IF verdict = "success" THEN "create" ELSE "error"

\* the status AppError gives an error kind (spec 7; apps/server/src/error.rs)
StatusOf(kind) == IF kind = "ClaimsCheckFailed" THEN 403 ELSE 500

OauthInit ==
    /\ oidc \in BOOLEAN
    /\ claims_script \in BOOLEAN
    /\ pkce_enabled \in BOOLEAN
    /\ pending_oauth = EmptyMap
    /\ sessions = EmptyMap
    /\ rq = [r \in Requests |-> NoRequest]
    /\ nTokens = 0
    /\ nSessions = 0
    /\ issued = {}
    /\ hits = EmptyMap
    /\ sessionBy = EmptyMap
    /\ ttl_seconds = ServerTtl

\* the server without traffic on /auth
OauthIdle ==
    /\ oidc = FALSE
    /\ claims_script = FALSE
    /\ pkce_enabled = FALSE
    /\ pending_oauth = EmptyMap
    /\ sessions = EmptyMap
    /\ rq = [r \in Requests |-> NoRequest]
    /\ nTokens = 0
    /\ nSessions = 0
    /\ issued = {}
    /\ hits = EmptyMap
    /\ sessionBy = EmptyMap
    /\ ttl_seconds = ServerTtl

\* SessionManager::create: a fresh id is inserted (session.rs 27-45)
SessionCreate(r, display_name) ==
    /\ nSessions' = nSessions + 1
    /\ sessions' = MapInsert(sessions, nSessions + 1,
                            [session_id |-> nSessions + 1, display_name |-> display_name,
                             expires_at |-> clock + ttl_seconds])
    /\ sessionBy' = MapInsert(sessionBy, nSessions + 1, r)

\* GET /auth/login with OIDC enabled: authorize_url builds the redirect with a random
\* state and nonce and, with PKCE, a verifier; an Err answers 500 (auth.rs 35-46)
LoginAuthorize(r) ==
    /\ rq[r].kind = "none"
    /\ oidc
    /\ \E ok \in BOOLEAN :
          IF ok
          THEN /\ nTokens' = nTokens + 1
               /\ rq' = [rq EXCEPT ![r] = [NoRequest EXCEPT !.kind = "login", !.pc = "insert",
                                                           !.csrf = nTokens + 1]]
          ELSE /\ rq' = [rq EXCEPT ![r] = [NoRequest EXCEPT !.kind = "login", !.pc = "done",
                                                           !.status = 500]]
               /\ UNCHANGED nTokens
    /\ UNCHANGED <<ttl_seconds, oidc, claims_script, pkce_enabled, pending_oauth, sessions, nSessions,
                   issued, hits, sessionBy>>

\* authorize_url: the nonce made by Nonce::new_random for the login that got the state
\* csrf (oidc.rs 305-309, 323)
authorize_url_nonce(csrf) == <<"nonce", csrf>>

\* authorize_url: the PKCE verifier made by PkceCodeChallenge::new_random_sha256 for
\* that login, when pkce_enabled (oidc.rs 311-317)
authorize_url_verifier(pkce, csrf) == IF pkce THEN Some(<<"verifier", csrf>>) ELSE None

\* GET /auth/login: pending_oauth.insert(state, nonce, verifier), then the redirect
\* (auth.rs 47-55; state.rs 30-38)
LoginInsert(r) ==
    /\ rq[r].kind = "login" /\ rq[r].pc = "insert"
    /\ pending_oauth' = MapInsert(pending_oauth, rq[r].csrf,
                            [nonce |-> authorize_url_nonce(rq[r].csrf),
                             code_verifier |-> authorize_url_verifier(pkce_enabled, rq[r].csrf)])
    /\ issued' = issued \cup {rq[r].csrf}
    /\ rq' = [rq EXCEPT ![r].pc = "done", ![r].status = 307]
    /\ UNCHANGED <<ttl_seconds, oidc, claims_script, pkce_enabled, sessions, nTokens, nSessions,
                   hits, sessionBy>>

\* GET /auth/login with OIDC disabled: a dev session is created (auth.rs 58-73)
LoginDev(r) ==
    /\ rq[r].kind = "none"
    /\ ~oidc
    /\ SessionCreate(r, "dev")
    /\ rq' = [rq EXCEPT ![r] = [NoRequest EXCEPT !.kind = "login", !.pc = "done",
                                                !.status = 302]]
    /\ UNCHANGED <<ttl_seconds, oidc, claims_script, pkce_enabled, pending_oauth, nTokens, issued, hits>>

\* the state parameters a callback may carry: none, a forged one (0), or one that a
\* login redirect has handed out
StateParams == {None, Some(0)} \cup {Some(t) : t \in issued}

\* GET /auth/callback arrives: OIDC disabled and a missing state are errors
\* (auth.rs 82-97)
CallbackStart(r) ==
    /\ rq[r].kind = "none"
    /\ \E st \in StateParams :
          rq' = [rq EXCEPT ![r] =
                    IF ~oidc \/ st = None
                    THEN [NoRequest EXCEPT !.kind = "callback", !.pc = "done", !.state = st,
                                           !.status = 500]
                    ELSE [NoRequest EXCEPT !.kind = "callback", !.pc = "take", !.state = st]]
    /\ UNCHANGED <<ttl_seconds, oidc, claims_script, pkce_enabled, pending_oauth, sessions, nTokens,
                   nSessions, issued, hits, sessionBy>>

\* a callback that goes on to the exchange whatever take() returned
AfterTakeUnchecked(got) == "exchange"

\* callback after pending_oauth.take(state).ok_or_else(..)?: None is returned as an Err
\* before the exchange (auth.rs 99-104)
AfterTake(got) == IF IsSome(got) THEN "exchange" ELSE "done"

\* GET /auth/callback: pending_oauth.take(state), an Err when it is None
\* (auth.rs 99-104; state.rs 41-43)
CallbackTake(r) ==
    /\ rq[r].kind = "callback" /\ rq[r].pc = "take"
    /\ LET st == Unwrap(rq[r].state)
           got == TakeResult(pending_oauth, st)
           racing == \E q \in Requests \ {r} : rq[q].pc = "take" /\ rq[q].state = rq[r].state
       IN  /\ pending_oauth' = RemoveState(pending_oauth, st)
           /\ hits' = IF IsSome(got)
                      THEN MapInsert(hits, st, IF st \in DOMAIN hits THEN hits[st] + 1 ELSE 1)
                      ELSE hits
           /\ rq' = [rq EXCEPT ![r].taken = got, ![r].raced = racing,
                               ![r].pc = AfterTake(got),
                               ![r].status = IF IsSome(got) THEN 0 ELSE 500]
    /\ UNCHANGED <<ttl_seconds, oidc, claims_script, pkce_enabled, sessions, nTokens, nSessions, issued,
                   sessionBy>>

\* GET /auth/callback: exchange_code at the provider succeeds or fails (auth.rs 106-115)
CallbackExchange(r) ==
    /\ rq[r].kind = "callback" /\ rq[r].pc = "exchange"
    /\ \E res \in {"Ok", "OidcTokenExchange"} :
          LET next == AfterExchange(res, claims_script)
          IN  rq' = [rq EXCEPT ![r].exchange = res,
                               ![r].pc = IF next = "error" THEN "done" ELSE next,
                               ![r].status = IF next = "error" THEN StatusOf(res) ELSE 0]
    /\ UNCHANGED <<ttl_seconds, oidc, claims_script, pkce_enabled, pending_oauth, sessions, nTokens,
                   nSessions, issued, hits, sessionBy>>

\* GET /auth/callback: the nonce and the verifier handed to exchange_code are those of
\* the entry taken (auth.rs 107-114)
ExchangeArgs(r) ==
    [nonce |-> Unwrap(rq[r].taken).nonce,
     pkce_verifier_secret |-> Unwrap(rq[r].taken).code_verifier]

\* GET /auth/callback: run_claims_check returns Ok, ClaimsCheckFailed or ClaimsCheck
\* (auth.rs 120-125; claims_engine.rs 20-80)
CallbackClaimsCheck(r) ==
    /\ rq[r].kind = "callback" /\ rq[r].pc = "claims_check"
    /\ \E v \in {"success", "ClaimsCheckFailed", "ClaimsCheck"} :
          LET next == AfterClaimsCheck(v)
          IN  rq' = [rq EXCEPT ![r].verdict = v,
                               ![r].pc = IF next = "error" THEN "done" ELSE next,
                               ![r].status = IF next = "error" THEN StatusOf(v) ELSE 0]
    /\ UNCHANGED <<ttl_seconds, oidc, claims_script, pkce_enabled, pending_oauth, sessions, nTokens,
                   nSessions, issued, hits, sessionBy>>

\* GET /auth/callback: sessions.create, cookie, 302 to / (auth.rs 143-159)
CallbackCreate(r) ==
    /\ rq[r].kind = "callback" /\ rq[r].pc = "create"
    /\ SessionCreate(r, "user")
    /\ rq' = [rq EXCEPT ![r].pc = "done", ![r].status = 302]
    /\ UNCHANGED <<ttl_seconds, oidc, claims_script, pkce_enabled, pending_oauth, nTokens, issued, hits>>

(* ======== auth.rs, routes/forward_auth.rs: the forward-auth validator ======== *)

VARIABLES
    fw,             \* the forward-auth request: position, inputs, locals, response
    admissible      \* the entry names a one-look validator could have admitted at some
                    \* moment of the request

fwdVars == <<fw, admissible>>

\* the Store of the server
Server == "A"

\* an Authorization header value
BasicHeader(user, pass) == [scheme |-> "Basic", user |-> user, pass |-> pass, token |-> ""]
BearerHeader(token) == [scheme |-> "Bearer", user |-> "", pass |-> "", token |-> token]
DigestHeader == [scheme |-> "Digest", user |-> "", pass |-> "", token |-> ""]

\* headers.get("authorization"): absent, or one of these values
Headers ==
    {None, Some(DigestHeader)}
    \cup {Some(BasicHeader("u", pw)) : pw \in {"p", "q"}}
    \cup {Some(BearerHeader(t)) : t \in {"t", "x"}}

\* parse_basic_auth_header (auth.rs 88-94)
parse_basic_auth_header(h) == IF h.scheme = "Basic" THEN Some(<<h.user, h.pass>>) ELSE None

\* parse_bearer_auth_header (auth.rs 97-101)
parse_bearer_auth_header(h) == IF h.scheme = "Bearer" THEN Some(h.token) ELSE None

\* check_basic_auth: Ok(Some(name)) of the first basic entry that verifies, Ok(None),
\* or the Err of verify_password (auth.rs 55-71)
RECURSIVE check_basic_auth(_, _, _)
check_basic_auth(entries, username, password) ==
    IF entries = <<>> THEN [err |-> FALSE, name |-> None]
    ELSE LET entry == Head(entries)
         IN  IF entry.kind # "basic" THEN check_basic_auth(Tail(entries), username, password)
             ELSE IF entry.username = Some(username) /\ IsSome(entry.password_hash)
             THEN LET v == verify_password(password, Unwrap(entry.password_hash))
                  IN  IF v.err THEN [err |-> TRUE, name |-> None]
                      ELSE IF v.ok THEN [err |-> FALSE, name |-> Some(entry.name)]
                      ELSE check_basic_auth(Tail(entries), username, password)
             ELSE check_basic_auth(Tail(entries), username, password)

\* check_token_auth: the name of the first token entry whose hash verifies (auth.rs 74-85)
RECURSIVE check_token_auth(_, _)
check_token_auth(entries, token) ==
    IF entries = <<>> THEN None
    ELSE LET entry == Head(entries)
         IN  IF entry.kind = "token" /\ IsSome(entry.token_hash)
                /\ verify_token(token, Unwrap(entry.token_hash))
             THEN Some(entry.name)
             ELSE check_token_auth(Tail(entries), token)

\* the entry names HeaderValue::from_str refuses: a byte outside visible ASCII
NotHeaderSafe == {"c\n"}

\* entry_name.parse::<HeaderValue>() (forward_auth.rs 27, 49)
HeaderValue_from_str(name) == IF name \in NotHeaderSafe THEN None ELSE Some(name)

\* check_forward_auth from the entries on: Ok(name) or Err(UNAUTHORIZED)
\* (forward_auth.rs 84-129)
CheckCredentials(entries, header) ==
    IF entries = <<>> THEN None
    ELSE IF header = None THEN None
    ELSE LET h == Unwrap(header)
             basic == parse_basic_auth_header(h)
             byBasic == IF IsSome(basic)
                        THEN check_basic_auth(entries, Unwrap(basic)[1], Unwrap(basic)[2]).name
                        ELSE None
             bearer == parse_bearer_auth_header(h)
         IN  IF IsSome(byBasic) THEN byBasic
             ELSE IF IsSome(bearer) THEN check_token_auth(entries, Unwrap(bearer))
             ELSE None

\* the response of traefik / nginx to the validator's result: 200 with X-Auth-User when
\* the name parses as a header value, or unauthorized_with_challenge
\* (forward_auth.rs 22-33, 45-55, 58-69)
Respond(result) ==
    IF IsSome(result)
    THEN [status |-> 200, x_auth_user |-> HeaderValue_from_str(Unwrap(result)),
          www_authenticate |-> FALSE]
    ELSE [status |-> 401, x_auth_user |-> None, www_authenticate |-> TRUE]

NoResponse == [status |-> 0, x_auth_user |-> None, www_authenticate |-> FALSE]

NoCheck ==
    [pc |-> "none", group |-> "", header |-> None, group_obj |-> None, entries |-> <<>>,
     result |-> None, response |-> NoResponse]

\* what a validator that looks at one cache state d would admit for the group name and
\* the header: the entries that are members of a group with that name and whose own
\* credential matches
AdmissibleIn(d, group, header) ==
    {d.entries[i].name : i \in
        {k \in DOMAIN d.entries :
            /\ \E j \in DOMAIN d.groups :
                  d.groups[j].name = group /\ Contains(d.entries[k].group_ids, d.groups[j].id)
            /\ IsSome(CheckCredentials(<<d.entries[k]>>, header))}}

\* the forward-auth server without traffic
FwdIdle == fw = NoCheck /\ admissible = {}

\* the looks a request in flight has had at the cache
Observe ==
    admissible' = IF fw'.pc \in {"find_group", "load_entries"}
                  THEN admissible \cup AdmissibleIn(data'[Server], fw'.group, fw'.header)
                  ELSE admissible

\* GET /api/forwardauth/{traefik|nginx}/{group} arrives (forward_auth.rs 17-22, 40-45)
FwdStart ==
    /\ fw.pc = "none"
    /\ \E g \in GroupNames, h \in Headers :
          fw' = [NoCheck EXCEPT !.pc = "find_group", !.group = g, !.header = h]

\* check_forward_auth: store.find_group_by_name(group).await (forward_auth.rs 77-80)
FwdFindGroup ==
    /\ fw.pc = "find_group"
    /\ LET found == find_group_by_name(data[Server], fw.group)
       IN  fw' = IF IsSome(found)
                 THEN [fw EXCEPT !.pc = "load_entries", !.group_obj = found]
                 ELSE [fw EXCEPT !.pc = "done", !.response = Respond(None)]

\* check_forward_auth: store.entries_by_group_id(id).await, then the header and the
\* credentials, and the handler's response (forward_auth.rs 82-129)
FwdLoadEntries ==
    /\ fw.pc = "load_entries"
    /\ LET entries == entries_by_group_id(data[Server], Unwrap(fw.group_obj).id)
           result == CheckCredentials(entries, fw.header)
       IN  fw' = [fw EXCEPT !.pc = "done", !.entries = entries, !.result = result,
                            !.response = Respond(result)]

(* ========== session.rs, routes/auth.rs, middleware.rs: sessions ========== *)

VARIABLES
    shadow,         \* the session table as it would be had cleanup() never run
    createdAt,      \* per session id: the clock reading when create() made it
    removedIds,     \* the session ids remove() was called on
    sop             \* the last call on the session table: operation, input, answer

sessVars == <<shadow, createdAt, removedIds, sop>>

NoSessionOp ==
    [op |-> "none", cookie |-> None, now |-> 0, found |-> FALSE, status |-> 0,
     gone |-> FALSE, before |-> EmptyMap]

\* the session manager before anything was asked of it
SessIdle ==
    /\ shadow = EmptyMap
    /\ createdAt = EmptyMap
    /\ removedIds = {}
    /\ sop = NoSessionOp

\* an expiry test that still accepts a session at its expires_at
NotYetPast(session, now) == session.expires_at >= now

\* s.expires_at > Utc::now() (session.rs 51, 69)
Unexpired(session, now) == session.expires_at > now

\* SessionManager::get: the stored session unless it is missing or expired
\* (session.rs 48-57)
SessionManager_get(table, session_id, now) ==
    IF session_id \in DOMAIN table /\ Unexpired(table[session_id], now)
    THEN Some(table[session_id])
    ELSE None

\* a remove that leaves the table as it is
SessionManager_keep(table, session_id) == table

\* SessionManager::remove: HashMap::remove (session.rs 60-63)
SessionManager_remove(table, session_id) ==
    [x \in DOMAIN table \ {session_id} |-> table[x]]

\* a cleanup that empties the table
SessionManager_clear(table, now) == EmptyMap

\* SessionManager::cleanup: retain the sessions that are not expired (session.rs 66-70)
SessionManager_cleanup(table, now) ==
    [x \in {y \in DOMAIN table : Unexpired(table[y], now)} |-> table[x]]

\* get_session_id: the value of the session cookie, if the request carries one: no
\* cookie, a value that is no session id (0), or an id handed out (middleware.rs 13-24)
Cookies == {None} \cup {Some(id) : id \in 0..nSessions}

\* SessionManager::create called at the current time (session.rs 27-45)
SessCreate ==
    /\ nSessions < MaxSessions
    /\ nSessions' = nSessions + 1
    /\ sessions' = MapInsert(sessions, nSessions + 1,
                            [session_id |-> nSessions + 1, display_name |-> "user",
                             expires_at |-> clock + ttl_seconds])
    /\ shadow' = MapInsert(shadow, nSessions + 1,
                          [session_id |-> nSessions + 1, display_name |-> "user",
                           expires_at |-> clock + ttl_seconds])
    /\ createdAt' = MapInsert(createdAt, nSessions + 1, clock)
    /\ sop' = [NoSessionOp EXCEPT !.op = "create", !.cookie = Some(nSessions + 1),
                                  !.now = clock]
    /\ UNCHANGED <<clock, ttl_seconds, removedIds>>

\* GET /auth/me: 401 without cookie or session, else the user info (auth.rs 182-200)
Me ==
    /\ \E c \in Cookies :
          LET session == IF IsSome(c) THEN SessionManager_get(sessions, Unwrap(c), clock)
                         ELSE None
          IN  sop' = [NoSessionOp EXCEPT !.op = "me", !.cookie = c, !.now = clock,
                                         !.found = IsSome(session),
                                         !.status = IF IsSome(session) THEN 200 ELSE 401,
                                         !.gone = IsSome(c) /\ Unwrap(c) \in removedIds]
    /\ UNCHANGED <<clock, ttl_seconds, nSessions, sessions, shadow, createdAt, removedIds>>

\* require_session before a protected route: 401 without cookie or session, else the
\* route runs (middleware.rs 27-54)
RequireSession ==
    /\ \E c \in Cookies :
          LET session == IF IsSome(c) THEN SessionManager_get(sessions, Unwrap(c), clock)
                         ELSE None
          IN  sop' = [NoSessionOp EXCEPT !.op = "require_session", !.cookie = c,
                                         !.now = clock, !.found = IsSome(session),
                                         !.status = IF IsSome(session) THEN 200 ELSE 401,
                                         !.gone = IsSome(c) /\ Unwrap(c) \in removedIds]
    /\ UNCHANGED <<clock, ttl_seconds, nSessions, sessions, shadow, createdAt, removedIds>>

\* POST /auth/logout: sessions.remove on the cookie's id, if any; always 200
\* (auth.rs 163-179)
Logout ==
    /\ \E c \in Cookies :
          /\ sessions' = IF IsSome(c) THEN SessionManager_remove(sessions, Unwrap(c))
                         ELSE sessions
          /\ shadow' = IF IsSome(c) THEN SessionManager_remove(shadow, Unwrap(c)) ELSE shadow
          /\ removedIds' = IF IsSome(c) THEN removedIds \cup {Unwrap(c)} ELSE removedIds
          /\ sop' = [NoSessionOp EXCEPT !.op = "logout", !.cookie = c, !.now = clock,
                                        !.status = 200]
    /\ UNCHANGED <<clock, ttl_seconds, nSessions, createdAt>>

\* SessionManager::cleanup called at the current time (session.rs 66-70)
Cleanup ==
    /\ sessions' = SessionManager_cleanup(sessions, clock)
    /\ sop' = [NoSessionOp EXCEPT !.op = "cleanup", !.now = clock, !.before = sessions]
    /\ UNCHANGED <<clock, ttl_seconds, nSessions, shadow, createdAt, removedIds>>

\* the wall clock moves on
Tick ==
    /\ clock < MaxTime
    /\ clock' = clock + 1
    /\ UNCHANGED <<ttl_seconds, nSessions, sessions, shadow, createdAt, removedIds, sop>>

(* ============ store.rs: the mutations of one Store, call by call ============ *)

VARIABLES
    step            \* the last mutation run: its call, the document it read, its result,
                    \* the document it left in the file, and its clock reading

seqVars == <<step>>

NoStep ==
    [call |-> [op |-> "none"], before |-> DataFile_default, res |-> "none",
     after |-> DataFile_default, now |-> 0]

\* no mutation has been traced
SeqIdle == step = NoStep

\* a data file with two groups: a basic entry in the first, a token entry in both
TwoGroupDoc ==
    [entries |-> <<new_basic(1, "a", "u", hash_password("p"), <<11>>, 0),
                   new_token(2, "b", hash_token("t"), <<11, 12>>, 0)>>,
     groups |-> <<Group_new(11, "g"), Group_new(12, "h")>>]

SeqDocs == {DataFile_default, SeededDoc, TwoGroupDoc}

\* the calls of Calls, and update_entry with only one of username and password_hash
SeqCalls ==
    Calls \cup
    {[op |-> "update_entry", id |-> i, name |-> n, username |-> c[1], password_hash |-> c[2],
      group_ids |-> gids] :
        i \in EntryIdArgs, n \in {None} \cup {Some(x) : x \in EntryNames},
        c \in {<<Some("v"), None>>, <<None, Some(hash_password("q"))>>},
        gids \in {None} \cup {Some(l) : l \in GroupIdLists}}

\* mutate_data_file_with_lock on the server's Store, with the call and its effect
\* recorded (store.rs 533-547)
TracedApplyAndWrite ==
    /\ pc[Server] = "read"
    /\ \E o \in SeqCalls, now \in ClockNext :
          /\ ApplyAndWriteCall(Server, o, now)
          /\ step' = [call |-> o, before |-> mres[Server].data,
                      res |-> ApplyOp(o, mres[Server].data, now).res,
                      after |-> fileDoc', now |-> now]

(* ======== store.rs: file operations that fail, files that do not parse ======== *)

VARIABLES
    content,        \* the bytes of the data file: "whole" (the JSON of fileDoc), "empty"
                    \* (no bytes) or "partial" (no complete JSON document)
    io,             \* the last mutation or reload of the server's Store, with the file and
                    \* the cache before and after it
    nWrites         \* writes to the data file by other programs so far

ioVars == <<content, io, nWrites>>

\* writes to the data file by other programs
MaxExternalWrites == 2

\* mutation calls while file operations may fail
MaxIoCalls == 1

\* the bytes and the document of the data file
OnDisk == [content |-> content, doc |-> fileDoc]

NoIo ==
    [op |-> "none", fault |-> "none", res |-> "none",
     pre |-> [content |-> "whole", doc |-> DataFile_default],
     post |-> DataFile_default,
     after |-> [content |-> "whole", doc |-> DataFile_default],
     cacheBefore |-> DataFile_default, versionBefore |-> 0,
     cacheAfter |-> DataFile_default, versionAfter |-> 0,
     read |-> DataFile_default, readMod |-> 0,
     idleAfter |-> TRUE, afterFailure |-> FALSE]

\* the data file holds a complete document and nothing has failed
IoIdle == content = "whole" /\ io = NoIo /\ nWrites = 0

\* parse_data_file on the bytes c, which spell the document d when whole (store.rs 553-559)
parse_data_file(c, d) ==
    CASE c = "empty" -> Ok(DataFile_default)
      [] c = "whole" -> Ok(d)
      [] c = "partial" -> Err("DataParse", DataFile_default)

\* the file operations of a mutation that may fail before the closure runs
\* (store.rs 525, 528-530)
ReadFaults == {"none", "lock_exclusive", "read_to_string"}

\* the file operations of a mutation that may fail after the closure ran (store.rs 536-540)
WriteFaults == {"none", "set_len", "seek", "write_all", "sync_all"}

\* what a write_all that fails may have left of the bytes it was given
Cuts == {"empty", "partial"}

\* the file operations of a reload that may fail (store.rs 475-483)
ReloadFaults == {"none", "lock_shared", "read_to_string"}

\* the data file after set_len(0), seek, write_all, sync_all of the document post, where
\* the operation named by fault failed and the `?` returned at once (store.rs 536-540)
FileAfterFault(fault, cut, post) ==
    CASE fault = "set_len" -> OnDisk
      [] fault = "seek" -> [content |-> "empty", doc |-> DataFile_default]
      [] fault = "write_all" -> [content |-> cut, doc |-> DataFile_default]
      [] fault = "sync_all" -> [content |-> "whole", doc |-> post]

\* the mutation calls of this section: entries created in no group, entries deleted
IoCalls ==
    {o \in Calls : \/ o.op = "delete_entry"
                   \/ o.op = "create_entry" /\ o.entry.group_ids = <<>>}

\* mutate_data_file_with_lock up to the parse: lock_exclusive, seek, read_to_string,
\* parse_data_file; an Err unlocks the file and is returned (store.rs 525-532, 546-547)
LockAndReadIo(s) ==
    /\ pc[s] = "io"
    /\ ExclusiveGrantable(s)
    /\ \E fault \in ReadFaults :
          LET parsed == parse_data_file(content, fileDoc)
              res == CASE fault = "lock_exclusive" -> "DataWrite"
                       [] fault = "read_to_string" -> "DataRead"
                       [] fault = "none" -> parsed.res
          IN  IF res = "Ok"
              THEN /\ xlock' = s
                   /\ mres' = [mres EXCEPT ![s] = [res |-> "read", data |-> parsed.data]]
                   /\ pc' = [pc EXCEPT ![s] = "read"]
                   /\ UNCHANGED <<io_lock, last, io>>
              ELSE /\ mres' = [mres EXCEPT ![s] = NoRes]
                   /\ pc' = [pc EXCEPT ![s] = "idle"]
                   /\ io_lock' = [io_lock EXCEPT ![s] = "free"]
                   /\ last' = [last EXCEPT ![s] = [op |-> "none", name |-> "", res |-> res]]
                   /\ io' = [NoIo EXCEPT !.op = "mutate", !.fault = fault, !.res = res,
                                         !.pre = OnDisk, !.post = fileDoc, !.after = OnDisk,
                                         !.cacheBefore = data[s], !.cacheAfter = data[s],
                                         !.versionBefore = last_modified[s],
                                         !.versionAfter = last_modified[s]]
                   /\ UNCHANGED xlock
    /\ UNCHANGED <<fileDoc, fileMtime, content, clock, nEntries, nGroups, nOps, data,
                   last_modified, mmod, spc, sdata, smod, concurrent, lastWriter, serialDoc,
                   nWrites>>

\* mutate_data_file_with_lock from the closure on: the closure, then set_len(0), seek,
\* write_all, sync_all, each of which may fail and return through `?`; then file.unlock()
\* (store.rs 533-547)
MutateIo(s) ==
    /\ pc[s] = "read"
    /\ \E o \in IoCalls, now \in ClockNext, fault \in WriteFaults, cut \in Cuts :
          LET r == ApplyOp(o, mres[s].data, now)
              left == FileAfterFault(fault, cut, r.data)
          IN  IF r.res # "Ok" \/ fault = "none"
              THEN /\ fault = "none" /\ cut = "empty"
                   /\ ApplyAndWriteCall(s, o, now)
                   /\ content' = IF r.res = "Ok" THEN "whole" ELSE content
                   /\ io' = [NoIo EXCEPT !.op = "mutate", !.res = r.res,
                                         !.pre = OnDisk, !.post = r.data,
                                         !.after = [content |-> content', doc |-> fileDoc'],
                                         !.cacheBefore = data[s], !.cacheAfter = data[s],
                                         !.versionBefore = last_modified[s],
                                         !.versionAfter = last_modified[s]]
              ELSE /\ fault = "write_all" \/ cut = "empty"
                   /\ xlock' = "none"
                   /\ nEntries' = IF o.op = "create_entry" THEN nEntries + 1 ELSE nEntries
                   /\ content' = left.content
                   /\ fileDoc' = left.doc
                   /\ fileMtime' = IF fault = "set_len" THEN fileMtime ELSE now
                   /\ clock' = IF fault = "set_len" THEN clock ELSE now
                   /\ mres' = [mres EXCEPT ![s] = NoRes]
                   /\ last' = [last EXCEPT ![s] =
                                 [op |-> o.op, name |-> o.name, res |-> "DataWrite"]]
                   /\ pc' = [pc EXCEPT ![s] = "idle"]
                   /\ io_lock' = [io_lock EXCEPT ![s] = "free"]
                   /\ io' = [NoIo EXCEPT !.op = "mutate", !.fault = fault, !.res = "DataWrite",
                                         !.pre = OnDisk, !.post = r.data, !.after = left,
                                         !.cacheBefore = data[s], !.cacheAfter = data[s],
                                         !.versionBefore = last_modified[s],
                                         !.versionAfter = last_modified[s]]
                   /\ UNCHANGED <<nGroups, nOps, data, last_modified, mmod, spc, sdata, smod,
                                  concurrent, lastWriter, serialDoc>>
    /\ UNCHANGED nWrites

\* a reload that left the cache empty after an error
ClearedCache(s) == DataFile_default

\* the cache after a reload whose read failed: `?` returns before the cache is
\* touched (store.rs 449)
CacheOnReloadError(s) == data[s]

\* reload_from_disk_if_changed up to the `?`: the io_lock, then read_data_file_with_lock,
\* whose open, lock, read or parse may fail; the sync task logs the Err and waits for
\* the next event or tick (store.rs 448-449, 463-499, 398-407, 429-438)
ReloadReadIo(s) ==
    /\ spc[s] = "idle"
    /\ io_lock[s] = "free"
    /\ SharedGrantable(s)
    /\ \E fault \in ReloadFaults :
          LET parsed == parse_data_file(content, fileDoc)
              res == IF fault = "none" THEN parsed.res ELSE "DataRead"
          IN  IF res = "Ok"
              THEN /\ io_lock' = [io_lock EXCEPT ![s] = "sync"]
                   /\ sdata' = [sdata EXCEPT ![s] = parsed.data]
                   /\ smod' = [smod EXCEPT ![s] = fileMtime]
                   /\ spc' = [spc EXCEPT ![s] = "read"]
                   /\ UNCHANGED <<data, io>>
              ELSE /\ data' = [data EXCEPT ![s] = CacheOnReloadError(s)]
                   /\ io' = [NoIo EXCEPT !.op = "reload", !.fault = fault, !.res = res,
                                         !.pre = OnDisk, !.after = OnDisk,
                                         !.cacheBefore = data[s], !.cacheAfter = data'[s],
                                         !.versionBefore = last_modified[s],
                                         !.versionAfter = last_modified[s],
                                         !.idleAfter = TRUE, !.afterFailure = TRUE]
                   /\ UNCHANGED <<io_lock, sdata, smod, spc>>
    /\ UNCHANGED <<fileDoc, fileMtime, content, xlock, clock, nEntries, nGroups, nOps,
                   last_modified, pc, mres, mmod, last, concurrent, lastWriter, serialDoc,
                   nWrites>>

\* reload_from_disk_if_changed after the read, with what it read and did recorded
\* (store.rs 451-459)
TracedReloadApply(s) ==
    /\ ReloadApply(s)
    /\ io' = [NoIo EXCEPT !.op = "reload", !.res = "Ok",
                          !.pre = OnDisk, !.after = OnDisk,
                          !.cacheBefore = data[s], !.cacheAfter = data'[s],
                          !.versionBefore = last_modified[s],
                          !.versionAfter = last_modified'[s],
                          !.read = sdata[s], !.readMod = smod[s],
                          !.idleAfter = (spc'[s] = "idle" /\ io_lock'[s] = "free"),
                          !.afterFailure = (io.op = "reload" /\ io.res # "Ok")]
    /\ UNCHANGED <<content, nWrites>>

\* the document d with its first entry renamed
Edited(d) ==
    IF d.entries = <<>> THEN d
    ELSE [d EXCEPT !.entries[1].name = "x"]

\* what another program may write: an edited copy of a document it read earlier, or
\* bytes that are no JSON document
ExternalDocs == {data[Server], Edited(data[Server])}

\* another program writes the data file, as tokio::fs::write does in the sync test
\* (tests/store_sync.rs 50-59)
ExternalWrite ==
    /\ nWrites < MaxExternalWrites
    /\ xlock = "none"
    /\ nWrites' = nWrites + 1
    /\ \E now \in ClockNext, c \in {"whole", "partial"}, d \in ExternalDocs :
          /\ content' = c
          /\ fileDoc' = IF c = "whole" THEN d ELSE DataFile_default
          /\ fileMtime' = now
          /\ clock' = now
    /\ UNCHANGED <<xlock, nEntries, nGroups, nOps, data, last_modified, io_lock, pc, mres,
                   mmod, spc, sdata, smod, last, concurrent, lastWriter, serialDoc, io>>

(* ============ store.rs: callers that are dropped while they wait ============ *)
(* A mutation awaits its blocking task with the io_lock guard in hand. When the   *)
(* future of the call is dropped at that await, the guard is dropped with it; the *)
(* closure given to spawn_blocking is not stopped and its result is thrown away.  *)
(* The file operations of the blocking task are steps of their own here. A call   *)
(* issued while the task of a dropped caller still runs waits for the file lock;  *)
(* it is taken up when that task has ended.                                       *)

VARIABLES
    gone,           \* the caller of the mutation in flight was dropped
    cancelledAt     \* where the blocking task stood when the last caller was dropped

cancelVars == <<gone, cancelledAt>>

\* mutation calls while callers may be dropped
MaxCancelCalls == 2

\* no caller was dropped
CancelIdle == gone = FALSE /\ cancelledAt = "none"

\* the positions of a mutation at which its caller waits for the blocking task
\* (store.rs 103-121, 549-550)
AwaitingTask == {"io", "read", "truncated", "written", "unlocked"}

\* a blocking task that ends with its caller
TaskStopped(s) == "idle"

\* the blocking task after its caller was dropped: spawn_blocking runs the closure to
\* its end, whoever waits for it (store.rs 509, 549)
TaskAfterCancel(s) == pc[s]

\* the future of a mutation is dropped at `.await?`: the io guard is released, the
\* blocking task goes on (store.rs 100-121)
CancelCaller(s) ==
    /\ pc[s] \in AwaitingTask
    /\ ~gone
    /\ gone' = TRUE
    /\ cancelledAt' = pc[s]
    /\ io_lock' = [io_lock EXCEPT ![s] = "free"]
    /\ pc' = [pc EXCEPT ![s] = TaskAfterCancel(s)]
    /\ UNCHANGED <<fileDoc, fileMtime, content, xlock, clock, nEntries, nGroups, nOps, data,
                   last_modified, mres, mmod, spc, sdata, smod, last, concurrent, lastWriter,
                   serialDoc>>

\* the blocking task runs the closure and, when it returns Ok, serialises the document
\* and truncates the file; an Err unlocks the file and is returned, to the caller if
\* there still is one (store.rs 533-536, 546-547)
TaskApply(s) ==
    /\ pc[s] = "read"
    /\ \E o \in IoCalls, now \in ClockNext :
          LET r == ApplyOp(o, mres[s].data, now)
          IN  /\ nEntries' = IF o.op = "create_entry" THEN nEntries + 1 ELSE nEntries
              /\ IF r.res = "Ok"
                 THEN /\ content' = "empty"
                      /\ clock' = now
                      /\ mres' = [mres EXCEPT ![s] = r]
                      /\ mmod' = [mmod EXCEPT ![s] = now]
                      /\ last' = [last EXCEPT ![s] = [op |-> o.op, name |-> o.name, res |-> "none"]]
                      /\ pc' = [pc EXCEPT ![s] = "truncated"]
                      /\ UNCHANGED <<xlock, io_lock, gone>>
                 ELSE /\ xlock' = "none"
                      /\ mres' = [mres EXCEPT ![s] = NoRes]
                      /\ last' = [last EXCEPT ![s] = [op |-> o.op, name |-> o.name, res |-> r.res]]
                      /\ pc' = [pc EXCEPT ![s] = "idle"]
                      /\ io_lock' = IF gone THEN io_lock ELSE [io_lock EXCEPT ![s] = "free"]
                      /\ gone' = FALSE
                      /\ UNCHANGED <<content, clock, mmod>>
    /\ UNCHANGED <<fileDoc, fileMtime, nGroups, nOps, data, last_modified, spc, sdata, smod,
                   concurrent, lastWriter, serialDoc, cancelledAt>>

\* the blocking task writes the whole document: seek, write_all (store.rs 537-539)
TaskWrite(s) ==
    /\ pc[s] = "truncated"
    /\ content' = "whole"
    /\ fileDoc' = mres[s].data
    /\ fileMtime' = mmod[s]
    /\ lastWriter' = s
    /\ serialDoc' = mres[s].data
    /\ pc' = [pc EXCEPT ![s] = "written"]
    /\ UNCHANGED <<xlock, clock, nEntries, nGroups, nOps, data, last_modified, io_lock, mres,
                   mmod, spc, sdata, smod, last, concurrent, gone, cancelledAt>>

\* the blocking task syncs, reads the mtime and unlocks the file (store.rs 540-546)
TaskSyncUnlock(s) ==
    /\ pc[s] = "written"
    /\ xlock' = "none"
    /\ pc' = [pc EXCEPT ![s] = "unlocked"]
    /\ UNCHANGED <<fileDoc, fileMtime, content, clock, nEntries, nGroups, nOps, data,
                   last_modified, io_lock, mres, mmod, spc, sdata, smod, last, concurrent,
                   lastWriter, serialDoc, gone, cancelledAt>>

\* the caller is still there when the blocking task has ended: the snapshot and the
\* mtime are installed (store.rs 123-125)
InstallByCaller(s) ==
    /\ ~gone
    /\ Install(s)
    /\ UNCHANGED <<content, gone, cancelledAt>>

\* the caller was dropped: the result of the blocking task is thrown away, the cache
\* and the cache version stay as they were (store.rs 549-550)
DiscardResult(s) ==
    /\ pc[s] = "unlocked"
    /\ gone
    /\ gone' = FALSE
    /\ mres' = [mres EXCEPT ![s] = NoRes]
    /\ mmod' = [mmod EXCEPT ![s] = 0]
    /\ last' = [last EXCEPT ![s].res = "dropped"]
    /\ pc' = [pc EXCEPT ![s] = "idle"]
    /\ UNCHANGED <<fileDoc, fileMtime, content, xlock, clock, nEntries, nGroups, nOps, data,
                   last_modified, io_lock, spc, sdata, smod, concurrent, lastWriter,
                   serialDoc, cancelledAt>>

(* ========= store.rs: read-only operations beside mutations and reloads ========= *)

VARIABLES
    rd,             \* the last read-only operation on the server's Store and its answer
    held            \* the documents the cache of the server's Store has held so far

readVars == <<rd, held>>

\* mutation calls while reads are watched
MaxReadCalls == 1

NoRead == [op |-> "none", arg |-> 0, res |-> <<>>]

\* no read is watched
ReadIdle == rd = NoRead /\ held = {}

\* the server's Store loaded: its cache has held the document of the file
ReadInit == rd = NoRead /\ held = {data[Server]}

\* the read-only operations a client may call
ReadQueries ==
    {[op |-> "list_entries", arg |-> 0], [op |-> "list_groups", arg |-> 0]}
    \cup {[op |-> "get_entry", arg |-> i] : i \in EntryIdArgs}
    \cup {[op |-> "entries_by_group_id", arg |-> g] : g \in GroupIdArgs}
    \cup {[op |-> "get_group", arg |-> g] : g \in GroupIdArgs}
    \cup {[op |-> "find_group_by_name", arg |-> n] : n \in GroupNames}

\* the answer of the read-only operation q on the document d (store.rs 86-97, 207-229,
\* 363-366)
ReadAnswer(q, d) ==
    CASE q.op = "list_entries" -> list_entries(d)
      [] q.op = "list_groups" -> list_groups(d)
      [] q.op = "get_entry" -> get_entry(d, q.arg)
      [] q.op = "entries_by_group_id" -> entries_by_group_id(d, q.arg)
      [] q.op = "get_group" -> get_group(d, q.arg)
      [] q.op = "find_group_by_name" -> find_group_by_name(d, q.arg)

\* a read that sees the first entry of a document the cache held before and the rest of
\* the document it holds now
TornView(s) ==
    LET older == {d \in held : d # data[s] /\ d.entries # <<>>}
    IN  IF older = {} \/ data[s].entries = <<>> THEN data[s]
        ELSE [data[s] EXCEPT !.entries[1] = (CHOOSE d \in older : TRUE).entries[1]]

\* the document a read-only operation works on: the cache, under the read lock on
\* Store.data taken once, which no replacement of the cache can interrupt
\* (store.rs 87, 91, 208, 219, 223, 364)
ReadView(s) == data[s]

\* a read-only operation on the server's Store (store.rs 86-97, 207-229, 363-366)
ReadOp ==
    /\ \E q \in ReadQueries :
          rd' = [op |-> q.op, arg |-> q.arg, res |-> ReadAnswer(q, ReadView(Server))]
    /\ UNCHANGED <<storeVars, held>>

\* a mutation of Store s installs its snapshot; the documents held are recorded
\* (store.rs 123-125)
InstallHeld(s) ==
    /\ Install(s)
    /\ held' = IF s = Server THEN held \cup {data'[s]} ELSE held
    /\ UNCHANGED rd

\* a reload of Store s ends; the documents held are recorded (store.rs 451-459)
ReloadApplyHeld(s) ==
    /\ ReloadApply(s)
    /\ held' = IF s = Server THEN held \cup {data'[s]} ELSE held
    /\ UNCHANGED rd

(* ========== routes/mod.rs, middleware.rs: the router and its layer ========== *)

VARIABLES
    hreq            \* the HTTP request in the server: route, session id of its cookie,
                    \* position, what the middleware found, the handler that ran

apiVars == <<hreq>>

\* the cookie pairs a Cookie header may hold
MaxCookies == 2

\* the sessions created while the router is watched
MaxApiSessions == 1

SESSION_COOKIE_NAME == "securitydept_session"

NoHttp ==
    [pc |-> "none", method |-> "", path |-> "", router |-> "", handler |-> "",
     session_id |-> None, passed |-> FALSE, ran |-> "none", status |-> 0]

\* no request is in the server
ApiIdle == hreq = NoHttp

\* build_router: the routes of the three routers that are merged (mod.rs 15-43)
auth_routes ==
    {[method |-> "GET", path |-> "/auth/login", router |-> "auth", handler |-> "auth::login"],
     [method |-> "GET", path |-> "/auth/callback", router |-> "auth", handler |-> "auth::callback"],
     [method |-> "POST", path |-> "/auth/logout", router |-> "auth", handler |-> "auth::logout"],
     [method |-> "GET", path |-> "/auth/me", router |-> "auth", handler |-> "auth::me"]}

api_routes ==
    {[method |-> "GET", path |-> "/api/entries", router |-> "api", handler |-> "entries::list"],
     [method |-> "POST", path |-> "/api/entries/basic", router |-> "api", handler |-> "entries::create_basic"],
     [method |-> "POST", path |-> "/api/entries/token", router |-> "api", handler |-> "entries::create_token"],
     [method |-> "GET", path |-> "/api/entries/{id}", router |-> "api", handler |-> "entries::get"],
     [method |-> "PUT", path |-> "/api/entries/{id}", router |-> "api", handler |-> "entries::update"],
     [method |-> "DELETE", path |-> "/api/entries/{id}", router |-> "api", handler |-> "entries::delete"],
     [method |-> "GET", path |-> "/api/groups", router |-> "api", handler |-> "groups::list"],
     [method |-> "POST", path |-> "/api/groups", router |-> "api", handler |-> "groups::create"],
     [method |-> "GET", path |-> "/api/groups/{id}", router |-> "api", handler |-> "groups::get"],
     [method |-> "PUT", path |-> "/api/groups/{id}", router |-> "api", handler |-> "groups::update"],
     [method |-> "DELETE", path |-> "/api/groups/{id}", router |-> "api", handler |-> "groups::delete"]}

forward_auth_routes ==
    {[method |-> "GET", path |-> "/api/forwardauth/traefik/{group}", router |-> "forward_auth",
      handler |-> "forward_auth::traefik"],
     [method |-> "GET", path |-> "/api/forwardauth/nginx/{group}", router |-> "forward_auth",
      handler |-> "forward_auth::nginx"]}

Routes == auth_routes \cup api_routes \cup forward_auth_routes

\* the handlers that call a mutation of the Store (routes/entries.rs, routes/groups.rs)
MutatingHandlers ==
    {"entries::create_basic", "entries::create_token", "entries::update", "entries::delete",
     "groups::create", "groups::update", "groups::delete"}

\* a layer put on the routes whose path begins with /api/entries only
LayeredEntriesOnly(route) ==
    route.router = "api" /\ route.handler \in {"entries::list", "entries::create_basic",
        "entries::create_token", "entries::get", "entries::update", "entries::delete"}

\* .layer(middleware::from_fn(require_session)) wraps the routes added to api_routes
\* before it, and no route of a router merged beside it (mod.rs 21-33, 45-48)
Layered(route) == route.router = "api"

\* the Cookie headers a request may carry: none, or up to MaxCookies pairs, each the
\* session cookie with some id (0 is no session's id) or another cookie
CookiePairs ==
    {<<SESSION_COOKIE_NAME, id>> : id \in 0..nSessions} \cup {<<"other", 0>>}

CookieHeaders ==
    {None} \cup {Some(h) : h \in UNION {[1..n -> CookiePairs] : n \in 0..MaxCookies}}

\* get_session_id: the value of the first pair of the Cookie header whose name is the
\* session cookie's (middleware.rs 13-24)
get_session_id(h) ==
    IF h = None THEN None
    ELSE LET pairs == Unwrap(h)
             named == {i \in DOMAIN pairs : pairs[i][1] = SESSION_COOKIE_NAME}
         IN  IF named = {} THEN None
             ELSE Some(pairs[CHOOSE i \in named : \A j \in named : i <= j][2])

\* a request arrives and is routed: to the layer if its route has one, else to its
\* handler (mod.rs 45-48)
HttpArrive ==
    /\ hreq.pc \in {"none", "done"}
    /\ \E route \in Routes : \E h \in CookieHeaders :
          hreq' = [NoHttp EXCEPT !.pc = IF Layered(route) THEN "require_session" ELSE "handler",
                                 !.method = route.method, !.path = route.path,
                                 !.router = route.router, !.handler = route.handler,
                                 !.session_id = get_session_id(h)]
    /\ UNCHANGED <<clock, ttl_seconds, nSessions, sessions, sessVars>>

\* require_session: 401 without a session cookie or when sessions.get finds nothing,
\* else next.run (middleware.rs 27-54)
require_session ==
    /\ hreq.pc = "require_session"
    /\ LET session == IF IsSome(hreq.session_id)
                      THEN SessionManager_get(sessions, Unwrap(hreq.session_id), clock)
                      ELSE None
       IN  hreq' = IF IsSome(session)
                   THEN [hreq EXCEPT !.pc = "handler", !.passed = TRUE]
                   ELSE [hreq EXCEPT !.pc = "done", !.status = 401]
    /\ UNCHANGED <<clock, ttl_seconds, nSessions, sessions, sessVars>>

\* the handler of the route runs and answers
HandlerRun ==
    /\ hreq.pc = "handler"
    /\ hreq' = [hreq EXCEPT !.pc = "done", !.ran = hreq.handler]
    /\ UNCHANGED <<clock, ttl_seconds, nSessions, sessions, sessVars>>

(* ================== store.rs: the sync task of a Store ================== *)

VARIABLES
    sync            \* the server's Store and its sync task: whether the Store lives, where
                    \* the task is, the watch events waiting in the channel, how many
                    \* events and ticks were made and received, how many reloads invoked,
                    \* whether the cache was replaced after the Store was dropped

syncVars == <<sync>>

\* watch events and poll ticks while the sync task is watched
MaxSyncEvents == 3

\* mutation calls of the other Store while the sync task is watched
MaxSyncCalls == 1

NoSync ==
    [alive |-> TRUE, task |-> "setup", events |-> <<>>, made |-> 0, received |-> 0,
     invoked |-> 0, late |-> FALSE]

\* the sync task is not watched
SyncIdle == sync = NoSync

\* a sync task that ends when the watch ends
EndsAfterNotifyLoop(res) == "finished"

\* spawn_sync_task: Ok(()) ends the task, an Err of run_notify_loop starts
\* run_poll_loop (store.rs 63-80)
AfterNotifyLoop(res) == IF res = "Ok" THEN "finished" ELSE "poll"

\* run_notify_loop: recommended_watcher or watch fails and `?` returns the Err, else
\* the loop over the channel begins (store.rs 383-393)
WatchSetup ==
    /\ sync.alive /\ sync.task = "setup"
    /\ \E ok \in BOOLEAN :
          sync' = [sync EXCEPT !.task = IF ok THEN "notify" ELSE AfterNotifyLoop("Err")]
    /\ UNCHANGED storeVars

\* the watcher's callback sends an event, Ok or Err, into the channel (store.rs 384-386)
WatchEvent ==
    /\ sync.alive /\ sync.task = "notify"
    /\ sync.made < MaxSyncEvents
    /\ \E e \in {"Ok", "Err"} :
          sync' = [sync EXCEPT !.events = Append(sync.events, e), !.made = sync.made + 1]
    /\ UNCHANGED storeVars

\* run_notify_loop: rx.recv() yields an Ok event and reload_from_disk_if_changed is
\* called: it takes io_lock and reads the file (store.rs 397-407, 448-449)
NotifyReload ==
    /\ sync.task = "notify"
    /\ sync.events # <<>> /\ Head(sync.events) = "Ok"
    /\ ReloadRead(Server)
    /\ sync' = [sync EXCEPT !.events = Tail(sync.events), !.received = sync.received + 1,
                            !.invoked = sync.invoked + 1]

\* run_notify_loop: rx.recv() yields an Err event, which is logged (store.rs 410-412)
NotifyError ==
    /\ sync.task = "notify"
    /\ spc[Server] = "idle"
    /\ sync.events # <<>> /\ Head(sync.events) = "Err"
    /\ sync' = [sync EXCEPT !.events = Tail(sync.events)]
    /\ UNCHANGED storeVars

\* run_notify_loop: rx.recv() yields None, the channel is closed, and the Err returned
\* is answered by spawn_sync_task (store.rs 397, 416, 72-79)
ChannelClosed ==
    /\ sync.task = "notify"
    /\ spc[Server] = "idle"
    /\ sync.events = <<>>
    /\ sync' = [sync EXCEPT !.task = AfterNotifyLoop("Err")]
    /\ UNCHANGED storeVars

\* run_poll_loop: ticker.tick() returns and reload_from_disk_if_changed is called
\* (store.rs 427-438)
PollTick ==
    /\ sync.task = "poll"
    /\ sync.made < MaxSyncEvents
    /\ ReloadRead(Server)
    /\ sync' = [sync EXCEPT !.made = sync.made + 1, !.received = sync.received + 1,
                            !.invoked = sync.invoked + 1]

\* reload_from_disk_if_changed ends inside the sync task; a task whose Store was
\* dropped during this poll is cancelled at its next await (store.rs 451-459)
SyncReloadApply ==
    /\ sync.task \in {"notify", "poll", "last_poll"}
    /\ ReloadApply(Server)
    /\ sync' = [sync EXCEPT !.task = IF sync.task = "last_poll" THEN "cancelled" ELSE sync.task,
                            !.late = sync.late \/ (~sync.alive /\ ~CacheIsCurrent(Server))]

\* Drop for Store: sync_task.abort(). A task that waits at an await is cancelled there
\* and its io_lock guard is dropped; a task whose poll is running, the read of the file
\* done, goes on to its next await that has to wait (store.rs 369-373)
DropStore ==
    /\ sync.alive
    /\ pc[Server] = "idle"
    /\ \E running \in BOOLEAN :
          IF running /\ spc[Server] = "read"
          THEN /\ sync' = [sync EXCEPT !.alive = FALSE, !.task = "last_poll"]
               /\ UNCHANGED storeVars
          ELSE /\ sync' = [sync EXCEPT !.alive = FALSE, !.task = "cancelled"]
               /\ io_lock' = [io_lock EXCEPT ![Server] = "free"]
               /\ spc' = [spc EXCEPT ![Server] = "idle"]
               /\ sdata' = [sdata EXCEPT ![Server] = DataFile_default]
               /\ smod' = [smod EXCEPT ![Server] = 0]
               /\ UNCHANGED <<fileDoc, fileMtime, xlock, clock, nEntries, nGroups, nOps, data,
                              last_modified, pc, mres, mmod, last, concurrent, lastWriter,
                              serialDoc>>

(* ====== base_url.rs, oidc.rs, routes/auth.rs: base URL and redirect URI ====== *)
(* A string is a sequence of pieces of text. The characters the code looks for  *)
(* (`:`, `/`, `"`, blank) and the separator `://` are always pieces of their    *)
(* own, so splitting, trimming and prefix tests work on whole pieces.           *)

VARIABLES
    ub              \* the redirect URIs of one login and its callback: the configuration,
                    \* each request's headers, the base URL and the redirect URI resolved

urlVars == <<ub>>

\* str::trim_start_matches(c), str::trim_end_matches(c), str::trim_matches(c), str::trim()
RECURSIVE TrimStartMatches(_, _)
TrimStartMatches(str, c) ==
    IF str # <<>> /\ Head(str) = c THEN TrimStartMatches(Tail(str), c) ELSE str

RECURSIVE TrimEndMatches(_, _)
TrimEndMatches(str, c) ==
    IF str # <<>> /\ str[Len(str)] = c
    THEN TrimEndMatches(SubSeq(str, 1, Len(str) - 1), c)
    ELSE str

TrimMatches(str, c) == TrimEndMatches(TrimStartMatches(str, c), c)

Trim(str) == TrimMatches(str, " ")

\* str::split(c).next(): the text before the first c, all of it when there is none
SplitFirst(str, c) ==
    IF \E i \in DOMAIN str : str[i] = c
    THEN SubSeq(str, 1, (CHOOSE i \in DOMAIN str : str[i] = c /\ \A j \in 1..(i - 1) : str[j] # c) - 1)
    ELSE str

\* Option::map(str::trim) and Option::filter(|s| !s.is_empty())
TrimmedNonEmpty(o) == IF IsSome(o) /\ Trim(Unwrap(o)) # <<>> THEN Some(Trim(Unwrap(o))) ELSE None

\* Option::map(|s| s.trim_matches('"'))
Unquoted(o) == IF IsSome(o) THEN Some(TrimMatches(Unwrap(o), "\"")) ELSE None

\* Iterator::find_map over a sequence of Options: the first Some
RECURSIVE FindMap(_)
FindMap(opts) ==
    IF opts = <<>> THEN None
    ELSE IF IsSome(Head(opts)) THEN Head(opts) ELSE FindMap(Tail(opts))

\* try_forwarded: a Forwarded value is its nodes as rfc7239::parse yields them, each a
\* parse error or the host and proto parameters as written; the first node counts
\* (base_url.rs 72-88)
try_forwarded(headers) ==
    IF ~IsSome(headers.forwarded) THEN <<None, None>>
    ELSE LET nodes == Unwrap(headers.forwarded)
         IN  IF nodes = <<>> \/ ~nodes[1].ok THEN <<None, None>>
             ELSE <<Unquoted(nodes[1].host), Unquoted(nodes[1].protocol)>>

\* try_x_forwarded (base_url.rs 91-103)
try_x_forwarded(headers) ==
    <<TrimmedNonEmpty(headers.x_forwarded_host), TrimmedNonEmpty(headers.x_forwarded_proto)>>

\* authority_header_name: HeaderName::from_bytes(b":authority") is refused by the http
\* crate, whose header names hold no colon (base_url.rs 10-14)
authority_header_name == None

\* try_host_header (base_url.rs 107-115)
try_host_header(headers) ==
    <<TrimmedNonEmpty(IF IsSome(headers.host) \/ ~IsSome(authority_header_name)
                      THEN headers.host ELSE None),
      None>>

\* is_loopback_host (base_url.rs 138-142)
is_loopback_host(host) ==
    SplitFirst(host, ":") \in {<<"localhost">>, <<"127.0.0.1">>, <<":", ":", "1">>,
                               <<"[", ":", ":", "1", "]">>}

\* infer_protocol_from_host (base_url.rs 118-124)
infer_protocol_from_host(host) == IF is_loopback_host(host) THEN <<"http">> ELSE <<"https">>

\* is_default_port (base_url.rs 134-136)
is_default_port(proto, port) == <<proto, port>> \in {<<"http", "80">>, <<"https", "443">>}

\* format_fallback_host (base_url.rs 126-132)
format_fallback_host(host, port) ==
    IF is_default_port("http", port) THEN host ELSE host \o <<":", port>>

\* infer_from_headers: the protocol found in the sources (base_url.rs 58-60)
protocol_of_sources(sources) == FindMap(<<sources[1][2], sources[2][2], sources[3][2]>>)

\* infer_from_headers (base_url.rs 42-69)
infer_from_headers(headers, fallback_host, fallback_port) ==
    LET sources == <<try_forwarded(headers), try_x_forwarded(headers), try_host_header(headers)>>
        host_from_headers == FindMap(<<sources[1][1], sources[2][1], sources[3][1]>>)
        host == IF IsSome(host_from_headers) THEN Unwrap(host_from_headers)
                ELSE format_fallback_host(fallback_host, fallback_port)
        found == protocol_of_sources(sources)
        protocol == IF IsSome(found) THEN Unwrap(found)
                    ELSE IF IsSome(host_from_headers)
                         THEN infer_protocol_from_host(Unwrap(host_from_headers))
                         ELSE <<"http">>
    IN  protocol \o <<"://">> \o host

\* ExternalBaseUrl (config.rs 74-79)
Auto == [kind |-> "Auto", url |-> <<>>]
Fixed(url) == [kind |-> "Fixed", url |-> url]

\* ExternalBaseUrl::from_config (config.rs 82-88)
ExternalBaseUrl_from_config(value) ==
    IF value \in {<<"auto">>, <<"AUTO">>} THEN Auto ELSE Fixed(TrimEndMatches(value, "/"))

\* resolve_base_url (base_url.rs 25-35)
resolve_base_url(config, headers, fallback_host, fallback_port) ==
    IF config.kind = "Fixed" THEN config.url
    ELSE infer_from_headers(headers, fallback_host, fallback_port)

\* pieces of text that begin with the letters http
HttpPrefixed == {"http", "https", "httpx"}

\* str::starts_with("http")
starts_with_http(str) == str # <<>> /\ Head(str) \in HttpPrefixed

\* a redirect URL that keeps the slashes at the end of the base
resolve_redirect_url_untrimmed(redirect_uri_template, external_base_url) ==
    IF starts_with_http(redirect_uri_template) THEN redirect_uri_template
    ELSE external_base_url \o redirect_uri_template

\* OidcClient::resolve_redirect_url (oidc.rs 271-281)
resolve_redirect_url(redirect_uri_template, external_base_url) ==
    IF starts_with_http(redirect_uri_template) THEN redirect_uri_template
    ELSE TrimEndMatches(external_base_url, "/") \o redirect_uri_template

\* RedirectUrl::new: Url::parse accepts an absolute URL, a scheme and what follows it, and
\* the RedirectUrl keeps the string it was given (oidc.rs 289-291)
RedirectUrl_new(url) ==
    IF Len(url) >= 3 /\ url[1] \in {"http", "https"} /\ url[2] = "://" /\ url[3] \notin {"/", ":", " "}
    THEN Ok(url)
    ELSE Err("OidcDiscovery", <<>>)

\* OidcClient::client_with_redirect: the redirect URI set on the client (oidc.rs 284-293)
client_with_redirect(redirect_uri_template, external_base_url) ==
    RedirectUrl_new(resolve_redirect_url(redirect_uri_template, external_base_url))

\* OidcClient::authorize_url: the redirect_uri parameter of the authorization URL
\* (oidc.rs 303-309)
authorize_url_redirect(redirect_uri_template, external_base_url) ==
    client_with_redirect(redirect_uri_template, external_base_url)

\* OidcClient::exchange_code: the redirect URI sent to the token endpoint (oidc.rs 339)
exchange_code_redirect(redirect_uri_template, external_base_url) ==
    client_with_redirect(redirect_uri_template, external_base_url)

\* a node of a Forwarded value
Node(host, protocol) == [ok |-> TRUE, host |-> host, protocol |-> protocol]
BadNode == [ok |-> FALSE, host |-> None, protocol |-> None]

\* Forwarded values of requests
ForwardedValues ==
    {None,
     Some(<<Node(Some(<<"rfc.example.com">>), Some(<<"https">>))>>),
     Some(<<Node(Some(<<"\"", "quoted.example.com", "\"">>), None)>>),
     Some(<<Node(Some(<<"\"", "\"">>), Some(<<"http">>))>>),
     Some(<<Node(Some(<<"rfc.example.com">>), Some(<<"\"", "\"">>))>>),
     Some(<<Node(None, None), Node(Some(<<"second.example.com">>), Some(<<"http">>))>>),
     Some(<<BadNode, Node(Some(<<"second.example.com">>), Some(<<"http">>))>>)}

\* X-Forwarded-Host, X-Forwarded-Proto and Host values of requests
XForwardedHostValues == {None, Some(<<" ">>), Some(<<"proxy.example.com">>)}
XForwardedProtoValues == {None, Some(<<>>), Some(<<"http">>), Some(<<"https">>)}
HostValues ==
    {None, Some(<<>>), Some(<<"internal.example.com">>), Some(<<"internal.example.com", ":", "8443">>),
     Some(<<"localhost">>), Some(<<"localhost", ":", "3000">>), Some(<<"127.0.0.1", ":", "3000">>),
     Some(<<":", ":", "1">>), Some(<<"[", ":", ":", "1", "]">>),
     Some(<<"[", ":", ":", "1", "]", ":", "3000">>), Some(<<"localhost.example.com">>)}

\* the headers of a request that matter to the base URL
RequestHeaders ==
    [forwarded : ForwardedValues, x_forwarded_host : XForwardedHostValues,
     x_forwarded_proto : XForwardedProtoValues, host : HostValues]

NoHeaders == [forwarded |-> None, x_forwarded_host |-> None, x_forwarded_proto |-> None, host |-> None]

\* headers of a callback that reaches the server on another way than its login did
OtherWays ==
    {NoHeaders,
     [NoHeaders EXCEPT !.host = Some(<<"internal.example.com">>)],
     [NoHeaders EXCEPT !.host = Some(<<"internal.example.com">>),
                       !.x_forwarded_host = Some(<<"proxy.example.com">>)]}

\* server.external_base_url values of the configuration
ExternalBaseUrlValues ==
    {<<"auto">>, <<"AUTO">>, <<"https", "://", "fixed.example.com">>,
     <<"https", "://", "fixed.example.com", "/", "/">>}

\* oidc.redirect_uri values of the configuration
RedirectTemplates ==
    {<<"/", "auth", "/", "callback">>, <<"auth">>, <<>>,
     <<"https", "://", "app.example.com", "/", "cb">>, <<"httpx">>, <<"htt", "p">>}

\* external_base_url arguments of authorize_url and exchange_code
BaseUrls ==
    {<<>>, <<"/">>, <<"https", "://", "example.com">>, <<"https", "://", "example.com", "/">>,
     <<"http", "://", "localhost", ":", "3000", "/", "/">>, <<"example.com">>,
     <<"https", "://", "example.com", "/", "sub", "/">>}

\* server.host and server.port of the configuration
BindHosts == {<<"0.0.0.0">>}
BindPorts == {"80", "443", "8080"}

NoUrl == [res |-> "none", data |-> <<>>]

\* the server configured; no request yet
UrlInit ==
    \E value \in ExternalBaseUrlValues, t \in RedirectTemplates, bh \in BindHosts, bp \in BindPorts :
        ub = [phase |-> "idle", external_base_url |-> ExternalBaseUrl_from_config(value),
              redirect_uri_template |-> t, host |-> bh, port |-> bp,
              arg |-> <<>>, authorize |-> NoUrl, exchange |-> NoUrl,
              login_headers |-> NoHeaders, login_base |-> <<>>, login_redirect |-> NoUrl,
              callback_headers |-> NoHeaders, callback_base |-> <<>>, callback_redirect |-> NoUrl]

\* no configuration of interest, no request
UrlIdle ==
    ub = [phase |-> "off", external_base_url |-> Auto,
          redirect_uri_template |-> <<>>, host |-> <<>>, port |-> "80",
          arg |-> <<>>, authorize |-> NoUrl, exchange |-> NoUrl,
          login_headers |-> NoHeaders, login_base |-> <<>>, login_redirect |-> NoUrl,
          callback_headers |-> NoHeaders, callback_base |-> <<>>, callback_redirect |-> NoUrl]

\* authorize_url and exchange_code called with one external_base_url (oidc.rs 303, 339)
ResolveRedirect ==
    /\ ub.phase = "idle"
    /\ \E b \in BaseUrls :
          ub' = [ub EXCEPT !.phase = "resolved", !.arg = b,
                           !.authorize = authorize_url_redirect(ub.redirect_uri_template, b),
                           !.exchange = exchange_code_redirect(ub.redirect_uri_template, b)]

\* login: resolve_base_url on the request's headers, then authorize_url
\* (routes/auth.rs 36-37)
UrlLogin ==
    /\ ub.phase = "idle"
    /\ \E h \in RequestHeaders :
          LET base == resolve_base_url(ub.external_base_url, h, ub.host, ub.port)
          IN  ub' = [ub EXCEPT !.phase = "login", !.login_headers = h, !.login_base = base,
                               !.login_redirect =
                                   authorize_url_redirect(ub.redirect_uri_template, base)]

\* callback: resolve_base_url on the request's headers, then exchange_code
\* (routes/auth.rs 106-115)
UrlCallback ==
    /\ ub.phase = "login"
    /\ ub.login_redirect.res = "Ok"
    /\ \E h \in {ub.login_headers} \cup OtherWays :
          LET base == resolve_base_url(ub.external_base_url, h, ub.host, ub.port)
          IN  ub' = [ub EXCEPT !.phase = "callback", !.callback_headers = h,
                               !.callback_base = base,
                               !.callback_redirect =
                                   exchange_code_redirect(ub.redirect_uri_template, base)]

(* ====== claims_engine.rs, routes/auth.rs: the claims check and the names ====== *)

\* cb  one GET /auth/callback from the code exchange on: the claims script configured
\*     (state.claims_script), the claims the exchange returned, and the answer
VARIABLES
    cb

ccVars == <<cb>>

\* serde_json::Value, as far as the handlers tell values apart
JString(s) == [t |-> "string", v |-> s]
JNull == [t |-> "null", v |-> "null"]
JNumber == [t |-> "number", v |-> "7"]
JBool(b) == [t |-> "bool", v |-> IF b THEN "true" ELSE "false"]
\* a JavaScript undefined: no JSON value
JsUndefined == [t |-> "undefined", v |-> "undefined"]

\* Value::as_str: the text of a string, None for any other value
as_str(v) == IF v.t = "string" THEN Some(v.v) ELSE None

\* Option::and_then(|v| v.as_str())
AndThenAsStr(o) == IF IsSome(o) THEN as_str(Unwrap(o)) ELSE None

\* JSON.stringify of an object member: a member that is undefined is left out
\* (claims_engine.rs 49)
StringifyMember(o) == IF IsSome(o) /\ Unwrap(o).t = "undefined" THEN None ELSE o

\* JSON.stringify(__result): undefined for undefined, else the JSON text, which is a
\* string (claims_engine.rs 48-49)
JSON_stringify(r) ==
    IF r.t = "undefined" THEN [js |-> "undefined", json |-> JNull]
    ELSE IF r.t # "object" THEN [js |-> "string", json |-> r]
    ELSE [js |-> "string",
          json |-> [t |-> "object",
                    success |-> StringifyMember(r.success),
                    error |-> StringifyMember(r.error),
                    display_name |-> StringifyMember(r.display_name),
                    picture |-> StringifyMember(r.picture)]]

\* context.eval(wrapper): the wrapper throws when the script leaves no default export
\* function or when the function throws; else its value is JSON.stringify of what
\* the function returned (claims_engine.rs 36-60)
EvalWrapper(script) ==
    IF script.default_export # "function"
    THEN Err("JsError", "No default export function found in the script")
    ELSE IF script.run = "throws"
    THEN Err("JsError", "thrown by the script")
    ELSE Ok(JSON_stringify(script.returns))

\* serde: an Option<String> field takes a string, a null or no member at all
IsOptionString(o) == ~IsSome(o) \/ Unwrap(o).t \in {"string", "null"}

\* serde: the Option<String> read from such a member
OptionString(o) == AndThenAsStr(o)

\* serde_json::from_str::<ClaimsCheckResult>: success must be a bool, display_name and
\* error strings when given (models.rs 147-156; picture as used by routes/auth.rs 124)
from_str_ClaimsCheckResult(j) ==
    IF /\ j.t = "object"
       /\ IsSome(j.success) /\ Unwrap(j.success).t = "bool"
       /\ IsOptionString(j.display_name)
       /\ IsOptionString(j.error)
       /\ IsOptionString(j.picture)
    THEN Ok([success |-> Unwrap(j.success).v = "true",
             display_name |-> OptionString(j.display_name),
             error |-> OptionString(j.error),
             picture |-> OptionString(j.picture)])
    ELSE Err("SerdeError", "Failed to parse script result")

\* the message of a failed check when the script gives no error
UnknownError == "Unknown error"

\* a check that reports every failure as a verdict of the script
run_claims_check_one_kind(script) ==
    LET result == EvalWrapper(script)
        parsed == IF result.res = "Ok" /\ result.data.js = "string"
                  THEN from_str_ClaimsCheckResult(result.data.json)
                  ELSE Err("SerdeError", "no text")
    IN  IF parsed.res = "Ok" /\ parsed.data.success THEN Ok(parsed.data)
        ELSE Err("ClaimsCheckFailed", UnknownError)

\* run_claims_check (claims_engine.rs 20-80)
run_claims_check(script) ==
    LET result == EvalWrapper(script)
    IN  IF result.res # "Ok" THEN Err("ClaimsCheck", result.data)
        ELSE IF result.data.js # "string"
        THEN Err("ClaimsCheck", "Script did not return a string")
        ELSE LET check_result == from_str_ClaimsCheckResult(result.data.json)
             IN  IF check_result.res # "Ok" THEN Err("ClaimsCheck", check_result.data)
                 ELSE IF ~check_result.data.success
                 THEN Err("ClaimsCheckFailed",
                          IF IsSome(check_result.data.error)
                          THEN Unwrap(check_result.data.error)
                          ELSE UnknownError)
                 ELSE Ok(check_result.data)

\* the name of a session whose claims give none
Unknown == "Unknown"

\* Option::unwrap_or
UnwrapOr(o, d) == IF IsSome(o) THEN Unwrap(o) ELSE d

\* callback with a script: the names are those of the script's result
\* (routes/auth.rs 120-125)
ScriptNames(result) ==
    [display_name |-> UnwrapOr(result.display_name, Unknown), picture |-> result.picture]

\* callback without a script: claims.get(preferred_username).or_else(nickname)
\* .or_else(sub).and_then(as_str).unwrap_or("Unknown"), and the picture claim when it
\* is a string (routes/auth.rs 126-140)
DefaultNames(claims) ==
    [display_name |-> UnwrapOr(AndThenAsStr(FindMap(<<claims.preferred_username,
                                                      claims.nickname,
                                                      claims.sub>>)), Unknown),
     picture |-> AndThenAsStr(claims.picture)]

\* what a claim may be in the claims the exchange returns: absent, a string, null, or
\* a value of another type
ClaimValues(name) == {None, Some(JString(name)), Some(JNull), Some(JNumber)}

ClaimsValues ==
    [preferred_username : ClaimValues("ada"),
     nickname : ClaimValues("countess"),
     sub : ClaimValues("user-123"),
     picture : {None, Some(JString("https://img.example.com/ada.png")), Some(JNull)}]

\* what the default function of a script may return
ScriptResults ==
    {JsUndefined, JNumber, JString("ok")} \cup
    [t : {"object"},
     success : {None, Some(JBool(TRUE)), Some(JBool(FALSE)), Some(JNull), Some(JString("yes"))},
     error : {None, Some(JsUndefined), Some(JNull), Some(JString("claims rejected")),
              Some(JNumber)},
     display_name : {None, Some(JString("Ada")), Some(JNumber)},
     picture : {None, Some(JString("https://img.example.com/ada.png"))}]

\* the scripts, told apart by what running them does
Scripts ==
    {[default_export |-> "none", run |-> "returns", returns |-> JsUndefined],
     [default_export |-> "function", run |-> "throws", returns |-> JsUndefined]} \cup
    [default_export : {"function"}, run : {"returns"}, returns : ScriptResults]

NoNames == [display_name |-> "", picture |-> None]

\* a callback whose code exchange has just returned claims
CcInit ==
    \E sc \in {None} \cup {Some(x) : x \in Scripts}, c \in ClaimsValues :
        cb = [pc |-> "exchanged", claims_script |-> sc, claims |-> c,
              check |-> Ok(NoNames), answer |-> "none", session |-> NoNames]

\* no callback
CcIdle ==
    cb = [pc |-> "off", claims_script |-> None,
          claims |-> [preferred_username |-> None, nickname |-> None, sub |-> None,
                      picture |-> None],
          check |-> Ok(NoNames), answer |-> "none", session |-> NoNames]

\* callback, a script configured: run_claims_check, `?`, then sessions.create with the
\* names of the result (routes/auth.rs 120-125, 143-159)
CallbackWithScript ==
    /\ cb.pc = "exchanged"
    /\ IsSome(cb.claims_script)
    /\ LET result == run_claims_check(Unwrap(cb.claims_script))
       IN  cb' = [cb EXCEPT !.pc = "done", !.check = result,
                            !.answer = IF result.res = "Ok" THEN "302" ELSE result.res,
                            !.session = IF result.res = "Ok" THEN ScriptNames(result.data)
                                        ELSE NoNames]

\* callback, no script configured: sessions.create with the names found in the claims
\* (routes/auth.rs 126-159)
CallbackWithoutScript ==
    /\ cb.pc = "exchanged"
    /\ ~IsSome(cb.claims_script)
    /\ cb' = [cb EXCEPT !.pc = "done", !.answer = "302", !.session = DefaultNames(cb.claims)]

(* ------------------------- the specifications -------------------------- *)

vars == <<storeVars, oauthVars, fwdVars, sessVars, seqVars, ioVars, urlVars, ccVars, cancelVars, readVars, apiVars, syncVars>>

\* the Stores at work; no traffic on /auth or /api/forwardauth
Init == StoreInit /\ OauthIdle /\ FwdIdle /\ SessIdle /\ SeqIdle /\ IoIdle /\ UrlIdle /\ CcIdle /\ CancelIdle /\ ReadIdle /\ ApiIdle /\ SyncIdle

Next ==
    \E s \in Stores :
        \/ Call(s) /\ UNCHANGED <<oauthVars, fwdVars, sessVars, seqVars, ioVars, urlVars, ccVars, cancelVars, readVars, apiVars, syncVars>>
        \/ LockAndRead(s) /\ UNCHANGED <<oauthVars, fwdVars, sessVars, seqVars, ioVars, urlVars, ccVars, cancelVars, readVars, apiVars, syncVars>>
        \/ ApplyAndWrite(s) /\ UNCHANGED <<oauthVars, fwdVars, sessVars, seqVars, ioVars, urlVars, ccVars, cancelVars, readVars, apiVars, syncVars>>
        \/ Install(s) /\ UNCHANGED <<oauthVars, fwdVars, sessVars, seqVars, ioVars, urlVars, ccVars, cancelVars, readVars, apiVars, syncVars>>
        \/ ReloadRead(s) /\ UNCHANGED <<oauthVars, fwdVars, sessVars, seqVars, ioVars, urlVars, ccVars, cancelVars, readVars, apiVars, syncVars>>
        \/ ReloadApply(s) /\ UNCHANGED <<oauthVars, fwdVars, sessVars, seqVars, ioVars, urlVars, ccVars, cancelVars, readVars, apiVars, syncVars>>

Spec == Init /\ [][Next]_vars

\* the login flow at work; the Store is at rest on an empty file
InitOauth == StoreInit /\ fileDoc = DataFile_default /\ OauthInit /\ FwdIdle /\ SessIdle /\ SeqIdle /\ IoIdle /\ UrlIdle /\ CcIdle /\ CancelIdle /\ ReadIdle /\ ApiIdle /\ SyncIdle

NextOauth ==
    \E r \in Requests :
        \/ LoginAuthorize(r) /\ UNCHANGED <<storeVars, fwdVars, sessVars, seqVars, ioVars, urlVars, ccVars, cancelVars, readVars, apiVars, syncVars>>
        \/ LoginInsert(r) /\ UNCHANGED <<storeVars, fwdVars, sessVars, seqVars, ioVars, urlVars, ccVars, cancelVars, readVars, apiVars, syncVars>>
        \/ LoginDev(r) /\ UNCHANGED <<storeVars, fwdVars, sessVars, seqVars, ioVars, urlVars, ccVars, cancelVars, readVars, apiVars, syncVars>>
        \/ CallbackStart(r) /\ UNCHANGED <<storeVars, fwdVars, sessVars, seqVars, ioVars, urlVars, ccVars, cancelVars, readVars, apiVars, syncVars>>
        \/ CallbackTake(r) /\ UNCHANGED <<storeVars, fwdVars, sessVars, seqVars, ioVars, urlVars, ccVars, cancelVars, readVars, apiVars, syncVars>>
        \/ CallbackExchange(r) /\ UNCHANGED <<storeVars, fwdVars, sessVars, seqVars, ioVars, urlVars, ccVars, cancelVars, readVars, apiVars, syncVars>>
        \/ CallbackClaimsCheck(r) /\ UNCHANGED <<storeVars, fwdVars, sessVars, seqVars, ioVars, urlVars, ccVars, cancelVars, readVars, apiVars, syncVars>>
        \/ CallbackCreate(r) /\ UNCHANGED <<storeVars, fwdVars, sessVars, seqVars, ioVars, urlVars, ccVars, cancelVars, readVars, apiVars, syncVars>>

SpecOauth == InitOauth /\ [][NextOauth]_vars

\* a forward-auth request while the server's Store is mutated through the admin API
InitFwd == StoreLoaded(FwdDocs) /\ OauthIdle /\ FwdIdle /\ SessIdle /\ SeqIdle /\ IoIdle /\ UrlIdle /\ CcIdle /\ CancelIdle /\ ReadIdle /\ ApiIdle /\ SyncIdle

NextFwd ==
    \/ FwdStart /\ UNCHANGED <<storeVars, oauthVars, sessVars, seqVars, ioVars, urlVars, ccVars, cancelVars, readVars, apiVars, syncVars>> /\ Observe
    \/ FwdFindGroup /\ UNCHANGED <<storeVars, oauthVars, sessVars, seqVars, ioVars, urlVars, ccVars, cancelVars, readVars, apiVars, syncVars>> /\ Observe
    \/ FwdLoadEntries /\ UNCHANGED <<storeVars, oauthVars, sessVars, seqVars, ioVars, urlVars, ccVars, cancelVars, readVars, apiVars, syncVars>> /\ Observe
    \/ nOps < MaxAdminCalls /\ Call(Server) /\ UNCHANGED <<oauthVars, sessVars, seqVars, ioVars, urlVars, ccVars, cancelVars, readVars, apiVars, syncVars, fw>> /\ Observe
    \/ LockAndRead(Server) /\ UNCHANGED <<oauthVars, sessVars, seqVars, ioVars, urlVars, ccVars, cancelVars, readVars, apiVars, syncVars, fw>> /\ Observe
    \/ ApplyAndWrite(Server) /\ UNCHANGED <<oauthVars, sessVars, seqVars, ioVars, urlVars, ccVars, cancelVars, readVars, apiVars, syncVars, fw>> /\ Observe
    \/ Install(Server) /\ UNCHANGED <<oauthVars, sessVars, seqVars, ioVars, urlVars, ccVars, cancelVars, readVars, apiVars, syncVars, fw>> /\ Observe

SpecFwd == InitFwd /\ [][NextFwd]_vars

\* the session manager at work under any TTL while the clock runs; no other traffic
InitSess ==
    /\ StoreInit /\ fileDoc = DataFile_default
    /\ oidc = FALSE /\ claims_script = FALSE /\ pkce_enabled = FALSE
    /\ pending_oauth = EmptyMap /\ sessions = EmptyMap
    /\ rq = [r \in Requests |-> NoRequest]
    /\ nTokens = 0 /\ nSessions = 0 /\ issued = {} /\ hits = EmptyMap
    /\ sessionBy = EmptyMap
    /\ ttl_seconds \in 0..MaxTtl
    /\ FwdIdle /\ SessIdle /\ SeqIdle /\ IoIdle /\ UrlIdle /\ CcIdle /\ CancelIdle /\ ReadIdle /\ ApiIdle /\ SyncIdle

NextSess ==
    \/ SessCreate /\ UNCHANGED <<storeRest, oauthRest, fwdVars, seqVars, ioVars, urlVars, ccVars, cancelVars, readVars, apiVars, syncVars>>
    \/ Me /\ UNCHANGED <<storeRest, oauthRest, fwdVars, seqVars, ioVars, urlVars, ccVars, cancelVars, readVars, apiVars, syncVars>>
    \/ RequireSession /\ UNCHANGED <<storeRest, oauthRest, fwdVars, seqVars, ioVars, urlVars, ccVars, cancelVars, readVars, apiVars, syncVars>>
    \/ Logout /\ UNCHANGED <<storeRest, oauthRest, fwdVars, seqVars, ioVars, urlVars, ccVars, cancelVars, readVars, apiVars, syncVars>>
    \/ Cleanup /\ UNCHANGED <<storeRest, oauthRest, fwdVars, seqVars, ioVars, urlVars, ccVars, cancelVars, readVars, apiVars, syncVars>>
    \/ Tick /\ UNCHANGED <<storeRest, oauthRest, fwdVars, seqVars, ioVars, urlVars, ccVars, cancelVars, readVars, apiVars, syncVars>>

SpecSess == InitSess /\ [][NextSess]_vars

\* one Store at work on its own, every mutation traced
InitSeq == StoreLoaded(SeqDocs) /\ OauthIdle /\ FwdIdle /\ SessIdle /\ SeqIdle /\ IoIdle /\ UrlIdle /\ CcIdle /\ CancelIdle /\ ReadIdle /\ ApiIdle /\ SyncIdle

NextSeq ==
    \/ Call(Server) /\ UNCHANGED <<oauthVars, fwdVars, sessVars, seqVars, ioVars, urlVars, ccVars, cancelVars, readVars, apiVars, syncVars>>
    \/ LockAndRead(Server) /\ UNCHANGED <<oauthVars, fwdVars, sessVars, seqVars, ioVars, urlVars, ccVars, cancelVars, readVars, apiVars, syncVars>>
    \/ TracedApplyAndWrite /\ UNCHANGED <<oauthVars, fwdVars, sessVars, ioVars, urlVars, ccVars, cancelVars, readVars, apiVars, syncVars>>
    \/ Install(Server) /\ UNCHANGED <<oauthVars, fwdVars, sessVars, seqVars, ioVars, urlVars, ccVars, cancelVars, readVars, apiVars, syncVars>>

SpecSeq == InitSeq /\ [][NextSeq]_vars

\* one Store and its sync task while file operations fail and another program writes
\* the data file
InitIo == StoreInit /\ OauthIdle /\ FwdIdle /\ SessIdle /\ SeqIdle /\ IoIdle /\ UrlIdle /\ CcIdle /\ CancelIdle /\ ReadIdle /\ ApiIdle /\ SyncIdle

NextIo ==
    \/ nOps < MaxIoCalls /\ Call(Server) /\ UNCHANGED <<oauthVars, fwdVars, sessVars, seqVars, ioVars, urlVars, ccVars, cancelVars, readVars, apiVars, syncVars>>
    \/ LockAndReadIo(Server) /\ UNCHANGED <<oauthVars, fwdVars, sessVars, seqVars, urlVars, ccVars, cancelVars, readVars, apiVars, syncVars>>
    \/ MutateIo(Server) /\ UNCHANGED <<oauthVars, fwdVars, sessVars, seqVars, urlVars, ccVars, cancelVars, readVars, apiVars, syncVars>>
    \/ Install(Server) /\ UNCHANGED <<oauthVars, fwdVars, sessVars, seqVars, ioVars, urlVars, ccVars, cancelVars, readVars, apiVars, syncVars>>
    \/ ReloadReadIo(Server) /\ UNCHANGED <<oauthVars, fwdVars, sessVars, seqVars, urlVars, ccVars, cancelVars, readVars, apiVars, syncVars>>
    \/ TracedReloadApply(Server) /\ UNCHANGED <<oauthVars, fwdVars, sessVars, seqVars, urlVars, ccVars, cancelVars, readVars, apiVars, syncVars>>
    \/ ExternalWrite /\ UNCHANGED <<oauthVars, fwdVars, sessVars, seqVars, urlVars, ccVars, cancelVars, readVars, apiVars, syncVars>>

SpecIo == InitIo /\ [][NextIo]_vars

\* the base URL and the redirect URI of logins and callbacks under every configuration;
\* the Store is at rest
InitUrl == StoreInit /\ fileDoc = DataFile_default /\ OauthIdle /\ FwdIdle /\ SessIdle /\ SeqIdle /\ IoIdle /\ UrlInit /\ CcIdle /\ CancelIdle /\ ReadIdle /\ ApiIdle /\ SyncIdle

NextUrl ==
    \/ ResolveRedirect /\ UNCHANGED <<storeVars, oauthVars, fwdVars, sessVars, seqVars, ioVars, ccVars, cancelVars, readVars, apiVars, syncVars>>
    \/ UrlLogin /\ UNCHANGED <<storeVars, oauthVars, fwdVars, sessVars, seqVars, ioVars, ccVars, cancelVars, readVars, apiVars, syncVars>>
    \/ UrlCallback /\ UNCHANGED <<storeVars, oauthVars, fwdVars, sessVars, seqVars, ioVars, ccVars, cancelVars, readVars, apiVars, syncVars>>

SpecUrl == InitUrl /\ [][NextUrl]_vars

\* the claims check and the names of the session, for every script and every claims;
\* the Store is at rest
InitCc == StoreInit /\ fileDoc = DataFile_default /\ OauthIdle /\ FwdIdle /\ SessIdle /\ SeqIdle /\ IoIdle /\ UrlIdle /\ CcInit /\ CancelIdle /\ ReadIdle /\ ApiIdle /\ SyncIdle

NextCc ==
    \/ CallbackWithScript /\ UNCHANGED <<storeVars, oauthVars, fwdVars, sessVars, seqVars, ioVars, urlVars, cancelVars, readVars, apiVars, syncVars>>
    \/ CallbackWithoutScript /\ UNCHANGED <<storeVars, oauthVars, fwdVars, sessVars, seqVars, ioVars, urlVars, cancelVars, readVars, apiVars, syncVars>>

SpecCc == InitCc /\ [][NextCc]_vars

\* one Store whose callers may be dropped at any await, beside its sync task; the file
\* operations of the blocking task are steps of their own
InitCancel == StoreInit /\ OauthIdle /\ FwdIdle /\ SessIdle /\ SeqIdle /\ IoIdle /\ UrlIdle /\ CcIdle /\ CancelIdle /\ ReadIdle /\ ApiIdle /\ SyncIdle

NextCancel ==
    \/ nOps < MaxCancelCalls /\ Call(Server) /\ UNCHANGED <<oauthVars, fwdVars, sessVars, seqVars, ioVars, urlVars, ccVars, cancelVars, readVars, apiVars, syncVars>>
    \/ LockAndRead(Server) /\ UNCHANGED <<oauthVars, fwdVars, sessVars, seqVars, ioVars, urlVars, ccVars, cancelVars, readVars, apiVars, syncVars>>
    \/ CancelCaller(Server) /\ UNCHANGED <<oauthVars, fwdVars, sessVars, seqVars, io, nWrites, urlVars, ccVars, readVars, apiVars, syncVars>>
    \/ TaskApply(Server) /\ UNCHANGED <<oauthVars, fwdVars, sessVars, seqVars, io, nWrites, urlVars, ccVars, readVars, apiVars, syncVars>>
    \/ TaskWrite(Server) /\ UNCHANGED <<oauthVars, fwdVars, sessVars, seqVars, io, nWrites, urlVars, ccVars, readVars, apiVars, syncVars>>
    \/ TaskSyncUnlock(Server) /\ UNCHANGED <<oauthVars, fwdVars, sessVars, seqVars, io, nWrites, urlVars, ccVars, readVars, apiVars, syncVars>>
    \/ InstallByCaller(Server) /\ UNCHANGED <<oauthVars, fwdVars, sessVars, seqVars, io, nWrites, urlVars, ccVars, readVars, apiVars, syncVars>>
    \/ DiscardResult(Server) /\ UNCHANGED <<oauthVars, fwdVars, sessVars, seqVars, io, nWrites, urlVars, ccVars, readVars, apiVars, syncVars>>
    \/ ReloadRead(Server) /\ UNCHANGED <<oauthVars, fwdVars, sessVars, seqVars, ioVars, urlVars, ccVars, cancelVars, readVars, apiVars, syncVars>>
    \/ ReloadApply(Server) /\ UNCHANGED <<oauthVars, fwdVars, sessVars, seqVars, ioVars, urlVars, ccVars, cancelVars, readVars, apiVars, syncVars>>

SpecCancel == InitCancel /\ [][NextCancel]_vars

\* the same, where the blocking pool runs every task it was given and the sync task
\* gets an event or a tick again and again
FairCancel ==
    /\ WF_vars(LockAndRead(Server) /\ UNCHANGED <<oauthVars, fwdVars, sessVars, seqVars, ioVars, urlVars, ccVars, cancelVars, readVars, apiVars, syncVars>>)
    /\ WF_vars(TaskApply(Server) /\ UNCHANGED <<oauthVars, fwdVars, sessVars, seqVars, io, nWrites, urlVars, ccVars, readVars, apiVars, syncVars>>)
    /\ WF_vars(TaskWrite(Server) /\ UNCHANGED <<oauthVars, fwdVars, sessVars, seqVars, io, nWrites, urlVars, ccVars, readVars, apiVars, syncVars>>)
    /\ WF_vars(TaskSyncUnlock(Server) /\ UNCHANGED <<oauthVars, fwdVars, sessVars, seqVars, io, nWrites, urlVars, ccVars, readVars, apiVars, syncVars>>)
    /\ WF_vars(InstallByCaller(Server) /\ UNCHANGED <<oauthVars, fwdVars, sessVars, seqVars, io, nWrites, urlVars, ccVars, readVars, apiVars, syncVars>>)
    /\ WF_vars(DiscardResult(Server) /\ UNCHANGED <<oauthVars, fwdVars, sessVars, seqVars, io, nWrites, urlVars, ccVars, readVars, apiVars, syncVars>>)
    /\ WF_vars(ReloadRead(Server) /\ UNCHANGED <<oauthVars, fwdVars, sessVars, seqVars, ioVars, urlVars, ccVars, cancelVars, readVars, apiVars, syncVars>>)
    /\ WF_vars(ReloadApply(Server) /\ UNCHANGED <<oauthVars, fwdVars, sessVars, seqVars, ioVars, urlVars, ccVars, cancelVars, readVars, apiVars, syncVars>>)

SpecCancelFair == SpecCancel /\ FairCancel

\* one Store and its sync task, no other writer, no caller dropped; what each reload
\* read and did is recorded in io
InitOne == StoreInit /\ OauthIdle /\ FwdIdle /\ SessIdle /\ SeqIdle /\ IoIdle /\ UrlIdle /\ CcIdle /\ CancelIdle /\ ReadIdle /\ ApiIdle /\ SyncIdle

NextOne ==
    \/ Call(Server) /\ UNCHANGED <<oauthVars, fwdVars, sessVars, seqVars, ioVars, urlVars, ccVars, cancelVars, readVars, apiVars, syncVars>>
    \/ LockAndRead(Server) /\ UNCHANGED <<oauthVars, fwdVars, sessVars, seqVars, ioVars, urlVars, ccVars, cancelVars, readVars, apiVars, syncVars>>
    \/ ApplyAndWrite(Server) /\ UNCHANGED <<oauthVars, fwdVars, sessVars, seqVars, ioVars, urlVars, ccVars, cancelVars, readVars, apiVars, syncVars>>
    \/ Install(Server) /\ UNCHANGED <<oauthVars, fwdVars, sessVars, seqVars, ioVars, urlVars, ccVars, cancelVars, readVars, apiVars, syncVars>>
    \/ ReloadRead(Server) /\ UNCHANGED <<oauthVars, fwdVars, sessVars, seqVars, ioVars, urlVars, ccVars, cancelVars, readVars, apiVars, syncVars>>
    \/ TracedReloadApply(Server) /\ UNCHANGED <<oauthVars, fwdVars, sessVars, seqVars, urlVars, ccVars, cancelVars, readVars, apiVars, syncVars>>

SpecOne == InitOne /\ [][NextOne]_vars

\* read-only operations on the server's Store while either Store mutates and both
\* reload
InitRead == StoreLoaded(SeqDocs) /\ OauthIdle /\ FwdIdle /\ SessIdle /\ SeqIdle /\ IoIdle /\ UrlIdle /\ CcIdle /\ CancelIdle /\ ReadInit /\ ApiIdle /\ SyncIdle

NextRead ==
    \/ ReadOp /\ UNCHANGED <<oauthVars, fwdVars, sessVars, seqVars, ioVars, urlVars, ccVars, cancelVars, apiVars, syncVars>>
    \/ \E s \in Stores :
        \/ nOps < MaxReadCalls /\ Call(s) /\ UNCHANGED <<oauthVars, fwdVars, sessVars, seqVars, ioVars, urlVars, ccVars, cancelVars, readVars, apiVars, syncVars>>
        \/ LockAndRead(s) /\ UNCHANGED <<oauthVars, fwdVars, sessVars, seqVars, ioVars, urlVars, ccVars, cancelVars, readVars, apiVars, syncVars>>
        \/ ApplyAndWrite(s) /\ UNCHANGED <<oauthVars, fwdVars, sessVars, seqVars, ioVars, urlVars, ccVars, cancelVars, readVars, apiVars, syncVars>>
        \/ InstallHeld(s) /\ UNCHANGED <<oauthVars, fwdVars, sessVars, seqVars, ioVars, urlVars, ccVars, cancelVars, apiVars, syncVars>>
        \/ ReloadRead(s) /\ UNCHANGED <<oauthVars, fwdVars, sessVars, seqVars, ioVars, urlVars, ccVars, cancelVars, readVars, apiVars, syncVars>>
        \/ ReloadApplyHeld(s) /\ UNCHANGED <<oauthVars, fwdVars, sessVars, seqVars, ioVars, urlVars, ccVars, cancelVars, apiVars, syncVars>>

SpecRead == InitRead /\ [][NextRead]_vars

\* the admin API, forward-auth and /auth routes behind the router, with sessions
\* created, logged out, purged and expiring meanwhile
InitApi ==
    /\ StoreInit /\ fileDoc = DataFile_default
    /\ oidc = FALSE /\ claims_script = FALSE /\ pkce_enabled = FALSE
    /\ pending_oauth = EmptyMap /\ sessions = EmptyMap
    /\ rq = [r \in Requests |-> NoRequest]
    /\ nTokens = 0 /\ nSessions = 0 /\ issued = {} /\ hits = EmptyMap
    /\ sessionBy = EmptyMap
    /\ ttl_seconds = MaxTtl
    /\ FwdIdle /\ SessIdle /\ SeqIdle /\ IoIdle /\ UrlIdle /\ CcIdle /\ CancelIdle /\ ReadIdle /\ ApiIdle /\ SyncIdle

NextApi ==
    \/ HttpArrive /\ UNCHANGED <<storeRest, oauthRest, fwdVars, seqVars, ioVars, urlVars, ccVars, cancelVars, readVars, syncVars>>
    \/ require_session /\ UNCHANGED <<storeRest, oauthRest, fwdVars, seqVars, ioVars, urlVars, ccVars, cancelVars, readVars, syncVars>>
    \/ HandlerRun /\ UNCHANGED <<storeRest, oauthRest, fwdVars, seqVars, ioVars, urlVars, ccVars, cancelVars, readVars, syncVars>>
    \/ nSessions < MaxApiSessions /\ SessCreate /\ UNCHANGED <<storeRest, oauthRest, fwdVars, seqVars, ioVars, urlVars, ccVars, cancelVars, readVars, apiVars, syncVars>>
    \/ Logout /\ UNCHANGED <<storeRest, oauthRest, fwdVars, seqVars, ioVars, urlVars, ccVars, cancelVars, readVars, apiVars, syncVars>>
    \/ Cleanup /\ UNCHANGED <<storeRest, oauthRest, fwdVars, seqVars, ioVars, urlVars, ccVars, cancelVars, readVars, apiVars, syncVars>>
    \/ Tick /\ UNCHANGED <<storeRest, oauthRest, fwdVars, seqVars, ioVars, urlVars, ccVars, cancelVars, readVars, apiVars, syncVars>>

SpecApi == InitApi /\ [][NextApi]_vars

\* the server's Store with its sync task, dropped at some moment, beside mutations of
\* another Store on the same file
InitSync == StoreInit /\ OauthIdle /\ FwdIdle /\ SessIdle /\ SeqIdle /\ IoIdle /\ UrlIdle /\ CcIdle /\ CancelIdle /\ ReadIdle /\ ApiIdle /\ SyncIdle

NextSync ==
    \/ WatchSetup /\ UNCHANGED <<oauthVars, fwdVars, sessVars, seqVars, ioVars, urlVars, ccVars, cancelVars, readVars, apiVars>>
    \/ WatchEvent /\ UNCHANGED <<oauthVars, fwdVars, sessVars, seqVars, ioVars, urlVars, ccVars, cancelVars, readVars, apiVars>>
    \/ NotifyReload /\ UNCHANGED <<oauthVars, fwdVars, sessVars, seqVars, ioVars, urlVars, ccVars, cancelVars, readVars, apiVars>>
    \/ NotifyError /\ UNCHANGED <<oauthVars, fwdVars, sessVars, seqVars, ioVars, urlVars, ccVars, cancelVars, readVars, apiVars>>
    \/ ChannelClosed /\ UNCHANGED <<oauthVars, fwdVars, sessVars, seqVars, ioVars, urlVars, ccVars, cancelVars, readVars, apiVars>>
    \/ PollTick /\ UNCHANGED <<oauthVars, fwdVars, sessVars, seqVars, ioVars, urlVars, ccVars, cancelVars, readVars, apiVars>>
    \/ SyncReloadApply /\ UNCHANGED <<oauthVars, fwdVars, sessVars, seqVars, ioVars, urlVars, ccVars, cancelVars, readVars, apiVars>>
    \/ DropStore /\ UNCHANGED <<oauthVars, fwdVars, sessVars, seqVars, ioVars, urlVars, ccVars, cancelVars, readVars, apiVars>>
    \/ nOps < MaxSyncCalls /\ Call("B") /\ UNCHANGED <<oauthVars, fwdVars, sessVars, seqVars, ioVars, urlVars, ccVars, cancelVars, readVars, apiVars, syncVars>>
    \/ LockAndRead("B") /\ UNCHANGED <<oauthVars, fwdVars, sessVars, seqVars, ioVars, urlVars, ccVars, cancelVars, readVars, apiVars, syncVars>>
    \/ ApplyAndWrite("B") /\ UNCHANGED <<oauthVars, fwdVars, sessVars, seqVars, ioVars, urlVars, ccVars, cancelVars, readVars, apiVars, syncVars>>
    \/ Install("B") /\ UNCHANGED <<oauthVars, fwdVars, sessVars, seqVars, ioVars, urlVars, ccVars, cancelVars, readVars, apiVars, syncVars>>

SpecSync == InitSync /\ [][NextSync]_vars

(* ======================= properties of the Store ======================= *)

\* every group id of every entry of d names a group of d
RefIntegrity(d) ==
    \A i \in DOMAIN d.entries : \A j \in DOMAIN d.entries[i].group_ids :
        \E g \in DOMAIN d.groups : d.groups[g].id = d.entries[i].group_ids[j]

\* C1: referential integrity. In the data file, in every Store's cache and in every
\* snapshot a mutation is about to install, each group id held by an entry names an
\* existing group, whatever the mutations of the Stores and their interleaving.
C1_ReferentialIntegrity ==
    /\ RefIntegrity(fileDoc)
    /\ \A s \in Stores : RefIntegrity(data[s]) /\ RefIntegrity(mres[s].data)

\* C1 witness: delete_group has succeeded on group 11 while entry 1, its member since
\* the file was seeded, is still there, and the other Store deleted an entry meanwhile.
C1_Witness ==
    \E s \in Stores, t \in Stores :
        /\ s # t
        /\ pc[s] = "idle" /\ pc[t] = "idle"
        /\ last[s].op = "delete_group" /\ last[s].res = "Ok"
        /\ last[t].op = "delete_entry" /\ last[t].res = "Ok"
        /\ FindById(fileDoc.groups, 11) = 0
        /\ FindById(fileDoc.entries, 1) # 0
        /\ fileDoc.entries[FindById(fileDoc.entries, 1)].group_ids = <<>>

\* no two records of the sequence have the same name
NamesUnique(seq) == \A i \in DOMAIN seq, j \in DOMAIN seq : i # j => seq[i].name # seq[j].name

\* the last mutations of s and t were overlapping create_entry calls with one name,
\* and they are the only mutations on a file that was empty
SameNameRace(s, t) ==
    /\ s # t
    /\ pc[s] = "idle" /\ pc[t] = "idle"
    /\ concurrent[s] /\ concurrent[t]
    /\ last[s].op = "create_entry" /\ last[t].op = "create_entry"
    /\ last[s].name = last[t].name
    /\ last[s].res # "GroupNotFound" /\ last[t].res # "GroupNotFound"
    /\ nOps = 2 /\ nEntries = 2

\* C2: name uniqueness. In the data file no two entries and no two groups share a
\* name; when two Stores concurrently create an entry with the same free name, one
\* returns Ok and the other DuplicateEntryName.
C2_NameUniqueness ==
    /\ NamesUnique(fileDoc.entries)
    /\ NamesUnique(fileDoc.groups)
    /\ \A s \in Stores, t \in Stores :
          SameNameRace(s, t) => {last[s].res, last[t].res} = {"Ok", "DuplicateEntryName"}

\* C2 witness: two overlapping create_entry calls with one name have both returned.
C2_Witness ==
    \E s \in Stores, t \in Stores :
        SameNameRace(s, t) /\ last[s].res = "Ok" /\ last[t].res = "DuplicateEntryName"

\* C3: no lost updates. The data file always holds the successful mutations of all
\* Stores applied one after another in the order of their writes: every mutation is
\* applied to the document as the previous one left it, never to an older one.
C3_NoLostUpdates == fileDoc = serialDoc

\* C3 witness: Stores A and B have concurrently created entries a and b on an empty
\* file, both returned Ok, and the file holds both entries.
C3_Witness ==
    \E s \in Stores, t \in Stores :
        /\ s # t
        /\ pc[s] = "idle" /\ pc[t] = "idle"
        /\ concurrent[s] /\ concurrent[t]
        /\ last[s] = [op |-> "create_entry", name |-> "a", res |-> "Ok"]
        /\ last[t] = [op |-> "create_entry", name |-> "b", res |-> "Ok"]
        /\ FindByName(fileDoc.entries, "a") # 0
        /\ FindByName(fileDoc.entries, "b") # 0

\* every read-only operation of Store s answers from document d
ReadsObserve(s, d) ==
    /\ list_entries(data[s]) = list_entries(d)
    /\ list_groups(data[s]) = list_groups(d)
    /\ \A id \in EntryIdArgs : get_entry(data[s], id) = get_entry(d, id)
    /\ \A id \in GroupIdArgs :
          /\ get_group(data[s], id) = get_group(d, id)
          /\ entries_by_group_id(data[s], id) = entries_by_group_id(d, id)
    /\ \A n \in GroupNames : find_group_by_name(data[s], n) = find_group_by_name(d, n)

\* the last write of the file is a mutation of Store s that has returned
WroteLastAndReturned(s) == lastWriter = s /\ pc[s] # "unlocked"

\* C4: read-your-writes. Once a mutation of a Store has returned Ok and while nobody
\* has written the file since, every read on that Store answers from the document
\* that mutation wrote, however the Store's reload task interleaves.
C4_ReadYourWrites ==
    \A s \in Stores : WroteLastAndReturned(s) => ReadsObserve(s, fileDoc)

\* C4 witness: after a successful mutation of a Store that changed the document, the
\* Store's own reload has read the file and is about to compare the mtimes.
C4_Witness ==
    \E s \in Stores :
        /\ WroteLastAndReturned(s)
        /\ pc[s] = "idle" /\ last[s].res = "Ok"
        /\ spc[s] = "read" /\ smod[s] = last_modified[s]
        /\ fileDoc \notin InitDocs

\* C5 as claimed: a reload that has read the file leaves the cache equal to the
\* document it read, so that a Store converges to the file once writes stop.
C5_ReloadConverges ==
    [][\A s \in Stores : (spc[s] = "read" /\ spc'[s] = "idle") => data'[s] = sdata[s]]_vars


\* the Stores whose blocking task is between file.lock_exclusive() and file.unlock()
ExclusiveHolders == {s \in Stores : pc[s] = "read"}

\* Store s has a mutation, or a reload, somewhere between taking io_lock and dropping it
MutationInside(s) == pc[s] # "idle"
ReloadInside(s) == spc[s] # "idle"

\* this step is the read of a reload of Store s under the shared file lock
SharedReadStep(s) == spc[s] = "idle" /\ spc'[s] = "read"

\* in every state: one Store has at most one mutation or reload inside its sequence,
\* io_lock telling which; at most one Store holds the exclusive file lock, and xlock
\* names it; the file is the successful mutations applied in the order of their writes
SerializedState ==
    /\ \A s \in Stores :
          /\ ~(MutationInside(s) /\ ReloadInside(s))
          /\ io_lock[s] = "mut" <=> MutationInside(s)
          /\ io_lock[s] = "sync" <=> ReloadInside(s)
    /\ Cardinality(ExclusiveHolders) <= 1
    /\ \A s \in Stores : s \in ExclusiveHolders <=> xlock = s
    /\ fileDoc = serialDoc

TakersOf(t) == {r \in Requests : rq[r].state = Some(t) /\ IsSome(rq[r].taken)}

\* C6: one-shot OAuth state. The state of every login is inserted once, and at most one
\* take(state) returns its entry, whatever the interleaving of the callbacks; after it the
\* entry is gone, and a state nobody inserted is never returned.
C6_OneShotState ==
    /\ \A t \in DOMAIN hits :
          /\ hits[t] <= 1
          /\ t \in issued
          /\ t \notin DOMAIN pending_oauth
    /\ \A t \in 0..nTokens : Cardinality(TakersOf(t)) <= 1
    /\ TakersOf(0) = {}

\* two callbacks raced on the same issued state: one got the entry, the other got None
C6_Witness ==
    \E r1 \in Requests : \E r2 \in Requests \ {r1} :
        /\ rq[r1].state = rq[r2].state
        /\ IsSome(rq[r1].taken) /\ rq[r1].raced
        /\ rq[r2].kind = "callback" /\ rq[r2].pc = "done"
        /\ rq[r2].taken = None /\ rq[r2].status = 500
        /\ hits[Unwrap(rq[r1].state)] = 1

\* the callback r came through every check of the handler
CallbackPassed(r) ==
    /\ rq[r].kind = "callback"
    /\ oidc
    /\ IsSome(rq[r].taken)
    /\ rq[r].exchange = "Ok"
    /\ claims_script => rq[r].verdict = "success"

\* the callback r ended on a missing, unknown or used state, a failed exchange, or a
\* failing claims check
CallbackFailed(r) ==
    /\ rq[r].kind = "callback" /\ rq[r].pc = "done"
    /\ \/ rq[r].taken = None
       \/ rq[r].exchange # "Ok"
       \/ claims_script /\ rq[r].verdict # "success"

\* C7: session creation guard. A session exists only because a callback took its state,
\* exchanged the code and, where a claims script is configured, passed it, or because of
\* a login with OIDC disabled; a callback that fails any of these answers with an error
\* and creates no session.
C7_SessionCreationGuard ==
    /\ DOMAIN sessions = DOMAIN sessionBy
    /\ \A id \in DOMAIN sessions :
          \/ CallbackPassed(sessionBy[id])
          \/ rq[sessionBy[id]].kind = "login" /\ ~oidc
    /\ \A r \in Requests :
          CallbackFailed(r) =>
              /\ rq[r].status \in {403, 500}
              /\ \A id \in DOMAIN sessions : sessionBy[id] # r

\* one callback passed the claims script and got a session, another failed its exchange
\* and got none
C7_Witness ==
    /\ claims_script
    /\ \E id \in DOMAIN sessions :
          CallbackPassed(sessionBy[id]) /\ rq[sessionBy[id]].verdict = "success"
    /\ \E r \in Requests :
          /\ CallbackFailed(r)
          /\ rq[r].exchange = "OidcTokenExchange"
          /\ \A id \in DOMAIN sessions : sessionBy[id] # r


\* the logins that were handed the state t
LoginsOf(t) == {q \in Requests : rq[q].kind = "login" /\ rq[q].csrf = t}

\* the callback r has called exchange_code
Exchanged(r) == rq[r].kind = "callback" /\ rq[r].exchange # "none"

\* C26: a pending entry holds a code_verifier exactly when pkce_enabled, and it holds
\* the nonce and verifier of the login that was handed its state; a callback hands to
\* exchange_code the nonce and verifier of the one login that was handed the state the
\* callback consumed, in every interleaving of logins and callbacks.
C26_PkceCorrelation ==
    /\ \A t \in DOMAIN pending_oauth :
          /\ IsSome(pending_oauth[t].code_verifier) <=> pkce_enabled
          /\ Cardinality(LoginsOf(t)) = 1
          /\ pending_oauth[t].nonce = authorize_url_nonce(t)
          /\ pending_oauth[t].code_verifier = authorize_url_verifier(pkce_enabled, t)
    /\ \A r \in Requests :
          Exchanged(r) =>
              LET t == Unwrap(rq[r].state)
              IN  /\ Cardinality(LoginsOf(t)) = 1
                  /\ ExchangeArgs(r).nonce = authorize_url_nonce(t)
                  /\ ExchangeArgs(r).pkce_verifier_secret = authorize_url_verifier(pkce_enabled, t)
                  /\ IsSome(ExchangeArgs(r).pkce_verifier_secret) <=> pkce_enabled

\* with PKCE, two logins were pending at once and two callbacks consumed their states in
\* the other order, each handing on its own login's verifier
C26_Witness ==
    /\ pkce_enabled
    /\ \E r1 \in Requests, r2 \in Requests :
          /\ Exchanged(r1) /\ Exchanged(r2)
          /\ Unwrap(rq[r1].state) = 2
          /\ Unwrap(rq[r2].state) = 1
          /\ r1 < r2
          /\ ExchangeArgs(r1).pkce_verifier_secret = Some(<<"verifier", 2>>)
          /\ ExchangeArgs(r2).pkce_verifier_secret = Some(<<"verifier", 1>>)

(* ================ properties of the forward-auth validator ================ *)

\* C8: group-scoped admission. The validator asked for group name G answers Ok(N) only if
\* at some moment of the request the cache held a group named G with the entry N among
\* its members and N's credential matching the header; an entry that was never a member
\* of a group named G is not admitted for G.
C8_GroupScopedAdmission ==
    (fw.pc = "done" /\ IsSome(fw.result)) => Unwrap(fw.result) \in admissible

\* the basic entries among those loaded whose username is that of the header and whose
\* password_hash verifies the header's password
BasicMatches ==
    LET h == Unwrap(fw.header)
    IN  {i \in DOMAIN fw.entries :
            /\ fw.entries[i].kind = "basic"
            /\ fw.entries[i].username = Some(h.user)
            /\ IsSome(fw.entries[i].password_hash)
            /\ verify_password(h.pass, Unwrap(fw.entries[i].password_hash)).ok}

\* C9: Basic first-match. With Basic credentials the validator admits with the name of the
\* first basic entry of the group, in stored order, whose username and password match;
\* no other entry before it stops it from being admitted.
C9_BasicFirstMatch ==
    (fw.pc = "done" /\ IsSome(fw.header) /\ Unwrap(fw.header).scheme = "Basic"
        /\ BasicMatches # {}) =>
        fw.result = Some(fw.entries[CHOOSE i \in BasicMatches :
                                        \A j \in BasicMatches : i <= j].name)

\* the request was denied: 401 with the Basic and Bearer challenge
Denied ==
    fw.response = [status |-> 401, x_auth_user |-> None, www_authenticate |-> TRUE]

\* the request was admitted: 200 with the matched entry's name in X-Auth-User
Admitted ==
    /\ IsSome(fw.result)
    /\ fw.response = [status |-> 200, x_auth_user |-> fw.result, www_authenticate |-> FALSE]

\* C10: forward-auth outcomes. An unknown group, a group without entries, an absent
\* Authorization header and credentials that match no entry are answered 401 with the
\* challenge; a match is answered 200 with X-Auth-User; there is no third answer.
C10_DenialOutcomes ==
    fw.pc = "done" =>
        /\ Denied \/ Admitted
        /\ (fw.group_obj = None \/ fw.entries = <<>> \/ fw.header = None
               \/ fw.result = None) => Denied


(* ===================== properties of the sessions ====================== *)

\* the session ids a request may present: none that exists (0), every id handed out, and
\* the next one not yet handed out
SessionIds == 0..(nSessions + 1)

\* the last call was a session lookup by GET /auth/me or by require_session
LookedUp == sop.op \in {"me", "require_session"}

\* C11: session expiry. get(id) returns a session only if it was created, was not removed
\* and its expires_at, the creation time plus the TTL, is strictly after the current time;
\* from expires_at on get returns None, whether cleanup has run or not.
C11_SessionExpiry ==
    /\ \A id \in SessionIds :
          LET got == SessionManager_get(sessions, id, clock)
          IN  /\ IsSome(got) =>
                    /\ id \in DOMAIN createdAt
                    /\ id \notin removedIds
                    /\ Unwrap(got).expires_at = createdAt[id] + ttl_seconds
                    /\ createdAt[id] + ttl_seconds > clock
              /\ (id \in DOMAIN createdAt /\ clock >= createdAt[id] + ttl_seconds) =>
                    got = None
    /\ (LookedUp /\ sop.found) =>
          /\ IsSome(sop.cookie)
          /\ Unwrap(sop.cookie) \in DOMAIN createdAt
          /\ createdAt[Unwrap(sop.cookie)] + ttl_seconds > sop.now
    /\ (LookedUp /\ IsSome(sop.cookie) /\ Unwrap(sop.cookie) \in DOMAIN createdAt
           /\ sop.now >= createdAt[Unwrap(sop.cookie)] + ttl_seconds) => ~sop.found

\* a lookup exactly at expires_at of a session that cleanup has not purged found nothing
C11_Witness ==
    /\ LookedUp /\ IsSome(sop.cookie)
    /\ Unwrap(sop.cookie) \in DOMAIN sessions
    /\ ttl_seconds > 0
    /\ sop.now = sessions[Unwrap(sop.cookie)].expires_at
    /\ ~sop.found /\ sop.status = 401

\* C12: logout is final. Once remove(id) has run, by POST /auth/logout with that cookie,
\* get(id) returns None in every later state, and GET /auth/me and the session-protected
\* routes answer 401 to that id.
C12_LogoutFinal ==
    /\ \A id \in removedIds :
          /\ id \notin DOMAIN sessions
          /\ SessionManager_get(sessions, id, clock) = None
    /\ (LookedUp /\ sop.gone) => (~sop.found /\ sop.status = 401)

\* a session that had not expired was logged out and then refused by GET /auth/me
C12_Witness ==
    /\ sop.op = "me" /\ sop.gone /\ sop.status = 401
    /\ Unwrap(sop.cookie) \in DOMAIN createdAt
    /\ createdAt[Unwrap(sop.cookie)] + ttl_seconds > sop.now

\* C13: cleanup transparency. Every get answers the same on the table with cleanup calls
\* interleaved as on the table without them, and a cleanup removes exactly the sessions
\* whose expires_at is not after the current time, keeping the others as they were.
C13_CleanupTransparency ==
    /\ \A id \in SessionIds :
          SessionManager_get(sessions, id, clock) = SessionManager_get(shadow, id, clock)
    /\ sop.op = "cleanup" =>
          /\ DOMAIN sessions = {id \in DOMAIN sop.before : ~(sop.before[id].expires_at <= sop.now)}
          /\ \A id \in DOMAIN sessions : sessions[id] = sop.before[id]

\* a cleanup purged one session and kept another
C13_Witness ==
    /\ sop.op = "cleanup"
    /\ DOMAIN sessions # {}
    /\ DOMAIN sessions # DOMAIN sop.before
    /\ sessions # shadow


(* ================ properties of the single Store mutations ================ *)

\* the last traced mutation was a call of the given operation
Did(op) == step.call.op = op

\* the document has a group / an entry with the id
HasGroup(d, id) == \E j \in DOMAIN d.groups : d.groups[j].id = id
HasEntry(d, id) == \E i \in DOMAIN d.entries : d.entries[i].id = id

\* the ids of the entries of the document that are members of the group
MembersOf(d, group_id) ==
    {d.entries[i].id : i \in {k \in DOMAIN d.entries : Contains(d.entries[k].group_ids, group_id)}}

\* a rejected mutation left the document as it was
Rejected(kind) == step.res = kind /\ step.after = step.before

\* C14: delete_group cascade. After a successful delete_group(g) the group is gone and no
\* entry's group_ids contains g; every entry that contained g has updated_at set by the
\* call, every other entry and every other group is unchanged; an unknown id is answered
\* GroupNotFound.
C14_DeleteGroupCascade ==
    Did("delete_group") =>
        LET g == step.call.id
            b == step.before
            a == step.after
        IN  IF ~HasGroup(b, g) THEN Rejected("GroupNotFound")
            ELSE /\ step.res = "Ok"
                 /\ ~HasGroup(a, g)
                 /\ a.groups = SelectSeq(b.groups, LAMBDA x : x.id # g)
                 /\ DOMAIN a.entries = DOMAIN b.entries
                 /\ \A i \in DOMAIN b.entries :
                       IF Contains(b.entries[i].group_ids, g)
                       THEN /\ ~Contains(a.entries[i].group_ids, g)
                            /\ a.entries[i].updated_at = step.now
                            /\ a.entries[i] =
                                  [b.entries[i] EXCEPT
                                      !.group_ids = SelectSeq(@, LAMBDA x : x # g),
                                      !.updated_at = step.now]
                       ELSE a.entries[i] = b.entries[i]

\* a group with a member was deleted at a later clock reading, beside an entry outside it
\* and another group
C14_Witness ==
    /\ Did("delete_group") /\ step.res = "Ok"
    /\ Len(step.after.groups) >= 1
    /\ \E i \in DOMAIN step.before.entries :
          /\ Contains(step.before.entries[i].group_ids, step.call.id)
          /\ step.after.entries[i].updated_at > step.before.entries[i].updated_at
    /\ \E i \in DOMAIN step.before.entries :
          ~Contains(step.before.entries[i].group_ids, step.call.id)


\* C15: update_group membership. After a successful update_group(id, name, entry_ids) the
\* group bears the name; with entry_ids present the members of the group are exactly the
\* listed entries, with entry_ids absent they are the members it had.
C15_UpdateGroupMembership ==
    (Did("update_group") /\ step.res = "Ok") =>
        LET id == step.call.id
            b == step.before
            a == step.after
        IN  /\ HasGroup(a, id)
            /\ \A j \in DOMAIN a.groups : a.groups[j].id = id => a.groups[j].name = step.call.name
            /\ IF IsSome(step.call.entry_ids)
               THEN MembersOf(a, id) = Range(Unwrap(step.call.entry_ids))
               ELSE MembersOf(a, id) = MembersOf(b, id)

\* an update_group renamed the group, dropped a member that was not listed and took in a
\* listed entry that was none
C15_Witness ==
    /\ Did("update_group") /\ step.res = "Ok" /\ IsSome(step.call.entry_ids)
    /\ \E j \in DOMAIN step.before.groups :
          /\ step.before.groups[j].id = step.call.id
          /\ step.before.groups[j].name # step.call.name
    /\ MembersOf(step.before, step.call.id) \ MembersOf(step.after, step.call.id) # {}
    /\ MembersOf(step.after, step.call.id) \ MembersOf(step.before, step.call.id) # {}

\* no entry of the document holds a group id twice
GroupIdsAreSets(d) ==
    \A i \in DOMAIN d.entries :
        Cardinality(Range(d.entries[i].group_ids)) = Len(d.entries[i].group_ids)

\* C16: update_group touches only changed entries. A successful update_group sets
\* updated_at on the entries whose membership in the group changes, and every entry whose
\* membership does not change keeps its updated_at and its group_ids as they were. This is
\* stated here for documents whose group_ids hold no id twice.
C16_UpdateGroupTouchesOnlyChanged ==
    (Did("update_group") /\ step.res = "Ok" /\ GroupIdsAreSets(step.before)) =>
        \A i \in DOMAIN step.before.entries :
            IF Contains(step.before.entries[i].group_ids, step.call.id)
               # Contains(step.after.entries[i].group_ids, step.call.id)
            THEN step.after.entries[i].updated_at = step.now
            ELSE step.after.entries[i] = step.before.entries[i]

\* how often the id occurs in the list
Occurrences(seq, v) == Cardinality({j \in DOMAIN seq : seq[j] = v})

\* C17: create_group. create_group fails with DuplicateGroupName when the name is taken and
\* fails when a listed entry id is unknown; on success the group is added, every listed
\* entry holds the new group id exactly once with updated_at set by the call, and the
\* entries not listed are unchanged.
C17_CreateGroup ==
    Did("create_group") =>
        LET g == step.call.group
            eids == IF IsSome(step.call.entry_ids) THEN Unwrap(step.call.entry_ids) ELSE <<>>
            b == step.before
            a == step.after
            taken == \E j \in DOMAIN b.groups : b.groups[j].name = g.name
            unknown == \E j \in DOMAIN eids : ~HasEntry(b, eids[j])
        IN  /\ taken => Rejected("DuplicateGroupName")
            /\ unknown => (step.res # "Ok" /\ a = b)
            /\ ~(taken \/ unknown) =>
                  /\ step.res = "Ok"
                  /\ a.groups = Append(b.groups, g)
                  /\ DOMAIN a.entries = DOMAIN b.entries
                  /\ \A i \in DOMAIN b.entries :
                        IF b.entries[i].id \in Range(eids)
                        THEN /\ Occurrences(a.entries[i].group_ids, g.id) = 1
                             /\ a.entries[i].updated_at = step.now
                             /\ a.entries[i] = [b.entries[i] EXCEPT
                                                   !.group_ids = Append(@, g.id),
                                                   !.updated_at = step.now]
                        ELSE a.entries[i] = b.entries[i]

\* a group was created at a later clock reading with one entry listed, twice, and another
\* entry not listed
C17_Witness ==
    /\ Did("create_group") /\ step.res = "Ok"
    /\ IsSome(step.call.entry_ids)
    /\ Len(Unwrap(step.call.entry_ids)) = 2
    /\ Cardinality(Range(Unwrap(step.call.entry_ids))) = 1
    /\ Len(step.before.entries) = 2
    /\ \E i \in DOMAIN step.after.entries :
          /\ Contains(step.after.entries[i].group_ids, step.call.group.id)
          /\ step.after.entries[i].updated_at > step.before.entries[i].updated_at

\* C18: update_entry is a partial update. A successful update_entry replaces the fields
\* given, sets updated_at, and leaves id, kind, token_hash, created_at, the fields not
\* given, the other entries and the groups as they were; DuplicateEntryName is answered
\* only when another entry has the new name, GroupNotFound only for an unknown group id,
\* EntryNotFound only for an unknown id, and in each of these cases the call fails.
C18_UpdateEntryPartial ==
    Did("update_entry") =>
        LET c == step.call
            b == step.before
            a == step.after
            dup == IsSome(c.name) /\ \E i \in DOMAIN b.entries :
                      b.entries[i].id # c.id /\ b.entries[i].name = Unwrap(c.name)
            badGroup == IsSome(c.group_ids) /\ \E j \in DOMAIN Unwrap(c.group_ids) :
                           ~HasGroup(b, Unwrap(c.group_ids)[j])
            missing == ~HasEntry(b, c.id)
        IN  /\ step.res = "DuplicateEntryName" => dup
            /\ step.res = "GroupNotFound" => badGroup
            /\ step.res = "EntryNotFound" => missing
            /\ (dup \/ badGroup \/ missing) => (step.res # "Ok" /\ a = b)
            /\ ~(dup \/ badGroup \/ missing) =>
                  /\ step.res = "Ok"
                  /\ a.groups = b.groups
                  /\ DOMAIN a.entries = DOMAIN b.entries
                  /\ \A i \in DOMAIN b.entries :
                        IF b.entries[i].id # c.id THEN a.entries[i] = b.entries[i]
                        ELSE /\ a.entries[i].id = b.entries[i].id
                             /\ a.entries[i].kind = b.entries[i].kind
                             /\ a.entries[i].token_hash = b.entries[i].token_hash
                             /\ a.entries[i].created_at = b.entries[i].created_at
                             /\ a.entries[i].updated_at = step.now
                             /\ a.entries[i].name =
                                   IF IsSome(c.name) THEN Unwrap(c.name) ELSE b.entries[i].name
                             /\ a.entries[i].username =
                                   IF IsSome(c.username) THEN c.username
                                   ELSE b.entries[i].username
                             /\ a.entries[i].password_hash =
                                   IF IsSome(c.password_hash) THEN c.password_hash
                                   ELSE b.entries[i].password_hash
                             /\ a.entries[i].group_ids =
                                   IF IsSome(c.group_ids) THEN Unwrap(c.group_ids)
                                   ELSE b.entries[i].group_ids

\* a basic entry was given its own name again and a new username, and nothing else, at a
\* later clock reading, beside another entry
C18_Witness ==
    /\ Did("update_entry") /\ step.res = "Ok"
    /\ IsSome(step.call.name) /\ IsSome(step.call.username)
    /\ step.call.password_hash = None /\ step.call.group_ids = None
    /\ Len(step.before.entries) = 2
    /\ \E i \in DOMAIN step.before.entries :
          /\ step.before.entries[i].id = step.call.id
          /\ step.before.entries[i].kind = "basic"
          /\ step.before.entries[i].name = Unwrap(step.call.name)
          /\ step.before.entries[i].username # step.call.username
          /\ step.after.entries[i].username = step.call.username
          /\ step.after.entries[i].password_hash = step.before.entries[i].password_hash
          /\ step.after.entries[i].updated_at > step.before.entries[i].updated_at

\* the entry has the fields of its kind and no others
KindConsistent(e) ==
    IF e.kind = "basic"
    THEN IsSome(e.username) /\ IsSome(e.password_hash) /\ e.token_hash = None
    ELSE e.kind = "token" /\ IsSome(e.token_hash) /\ e.username = None
         /\ e.password_hash = None

\* C19: kind consistency. In every state each entry of the data file has exactly one of
\* password_hash and token_hash, as its kind says: a basic entry has username and
\* password_hash and no token_hash, a token entry has token_hash and neither of the others.
C19_KindConsistency ==
    \A i \in DOMAIN fileDoc.entries : KindConsistent(fileDoc.entries[i])

\* C20: group_ids is a set. In every state no entry of the data file holds the same group
\* id more than once, whatever id lists the calls were given.
C20_GroupIdsIsSet ==
    \A i \in DOMAIN fileDoc.entries :
        \A g \in Range(fileDoc.entries[i].group_ids) :
            Occurrences(fileDoc.entries[i].group_ids, g) = 1

\* no two records of seq share an id
IdsUnique(seq) == \A i \in DOMAIN seq, j \in DOMAIN seq : i # j => seq[i].id # seq[j].id

\* the records of seq that a lookup by id may return
RecordsWithId(seq, id) == {i \in DOMAIN seq : seq[i].id = id}

\* C21: in the data file and in the Store's cache no two entries share an id and no two
\* groups share an id, so get_entry(id) and get_group(id) each have at most one record to
\* return; a delete_entry that succeeds removes exactly one entry and leaves the others.
C21_IdUniqueness ==
    /\ \A d \in {fileDoc, data[Server]} :
          /\ IdsUnique(d.entries) /\ IdsUnique(d.groups)
          /\ \A id \in EntryIdArgs : Cardinality(RecordsWithId(d.entries, id)) <= 1
          /\ \A id \in GroupIdArgs : Cardinality(RecordsWithId(d.groups, id)) <= 1
          /\ \A id \in EntryIdArgs :
                IsSome(get_entry(d, id)) <=> Cardinality(RecordsWithId(d.entries, id)) = 1
          /\ \A id \in GroupIdArgs :
                IsSome(get_group(d, id)) <=> Cardinality(RecordsWithId(d.groups, id)) = 1
    /\ (Did("delete_entry") /\ step.res = "Ok") =>
          /\ Len(step.after.entries) = Len(step.before.entries) - 1
          /\ step.after.entries = SelectSeq(step.before.entries, LAMBDA e : e.id # step.call.id)

\* an entry was created next to another one and holds the id handed out last, the
\* other entry an earlier one
C21_Witness ==
    /\ Did("create_entry") /\ step.res = "Ok"
    /\ Len(step.before.entries) = 1
    /\ Len(fileDoc.entries) = 2
    /\ fileDoc.entries[2].id = nEntries
    /\ fileDoc.entries[1].id < nEntries

\* the validation errors of the Store's mutations (error.rs)
ValidationErrors == {"DuplicateEntryName", "DuplicateGroupName", "EntryNotFound", "GroupNotFound"}

\* this step is the blocking task of a mutation whose closure returned an error
RejectedStep == pc[Server] = "read" /\ pc'[Server] # "read" /\ step'.res # "Ok"

\* C35: a mutation that returns DuplicateEntryName, DuplicateGroupName, EntryNotFound or
\* GroupNotFound leaves the document and the mtime of the data file, the Store's cache
\* and the cache version exactly as they were, and returns that error to its caller
\* with the file and the io_lock released; nothing of the rejected operation is
\* written or cached.
C35_RejectedChangesNothing ==
    [][RejectedStep =>
          /\ step'.res \in ValidationErrors
          /\ fileDoc' = fileDoc /\ fileDoc' = step'.before /\ step'.after = step'.before
          /\ fileMtime' = fileMtime
          /\ data' = data /\ last_modified' = last_modified
          /\ last'[Server].res = step'.res
          /\ pc'[Server] = "idle" /\ xlock' = "none" /\ io_lock'[Server] = "free"]_vars

\* update_group was to rename an existing group and name its members, one of them
\* unknown: it returned EntryNotFound and file and cache hold the group under its old name
C35_Witness ==
    /\ step.call.op = "update_group" /\ step.res = "EntryNotFound"
    /\ pc[Server] = "idle" /\ last[Server].res = "EntryNotFound"
    /\ FindById(step.before.groups, step.call.id) # 0
    /\ step.before.groups[FindById(step.before.groups, step.call.id)].name # step.call.name
    /\ fileDoc = step.before /\ data[Server] = step.before

(* ================= properties of failing file operations ================= *)

\* the server's mutation returned an I/O error
IoErrorReturned == io.op = "mutate" /\ io.res \in {"DataRead", "DataWrite"}

\* what a reader that takes the shared lock gets from the file f (store.rs 477-498)
ReaderGets(f) == parse_data_file(f.content, f.doc)

\* C22: when a mutation returns an I/O error, a reader that takes the shared lock after
\* it gets the complete document the mutation found or the complete document it was
\* writing, never the document of an emptied file and never a parse error from a partly
\* written one.
C22_PreOrPostOnIoError ==
    IoErrorReturned =>
        \/ ReaderGets(io.after) = ReaderGets(io.pre)
        \/ ReaderGets(io.after) = Ok(io.post)

\* the server's reload returned an error
ReloadFailed == io.op = "reload" /\ io.res # "Ok"

\* the server's reload read the file; the reload before it had failed
ReloadedAfterFailure == io.op = "reload" /\ io.res = "Ok" /\ io.afterFailure

CacheCoherent == data[Server] = fileDoc /\ last_modified[Server] = fileMtime

\* this step ends a reload of the Store
ReloadEnds == spc[Server] = "read" /\ spc'[Server] = "idle"

\* C37: with a single Store, no other writer and no dropped caller, whenever the
\* Store's io_lock is free the cache equals the document of the data file and the
\* cache version equals the file's mtime; every reload is therefore a no-op and never
\* replaces the cache with an older document.
C37_CacheCoherentAtRest ==
    /\ [](io_lock[Server] = "free" => CacheCoherent)
    /\ [][ReloadEnds => (CacheIsCurrent(Server) /\ data' = data /\ last_modified' = last_modified)]_vars

\* the Store has written the file and returned; the reload its write set off has read
\* the file and finds the mtime it read equal to the cache version
C37_Witness ==
    /\ last[Server].res = "Ok" /\ pc[Server] = "idle"
    /\ fileMtime > 0 /\ fileDoc # DataFile_default
    /\ spc[Server] = "read"
    /\ smod[Server] = last_modified[Server]
    /\ sdata[Server] = data[Server]

(* ============== properties of the read-only operations =============== *)

\* this step is a read-only operation
ReadStep == rd' # rd

\* the query the last read answered
LastQuery == [op |-> rd.op, arg |-> rd.arg]

\* C36: a read-only operation that runs beside a mutation or a reload answers entirely
\* from one document the cache has held, the one before or the one after the
\* replacement, never from a mix of two; and a read changes neither the file nor the
\* cache nor the cache version.
C36_AtomicSnapshots ==
    /\ [](rd.op # "none" => \E d \in held : rd.res = ReadAnswer(LastQuery, d))
    /\ [][ReadStep =>
             /\ rd'.res = ReadAnswer([op |-> rd'.op, arg |-> rd'.arg], data[Server])
             /\ UNCHANGED <<fileDoc, fileMtime, data, last_modified, io_lock, xlock>>]_vars

\* list_entries ran on the server's Store after another Store deleted a group of two
\* entries and before the reload had brought the deletion into the cache: it answered
\* with the entries as they were, both still in the group
C36_Witness ==
    /\ rd.op = "list_entries"
    /\ lastWriter = "B" /\ last["B"].op = "delete_group" /\ last["B"].res = "Ok"
    /\ fileDoc # data[Server]
    /\ rd.res = data[Server].entries
    /\ Len(rd.res) = 2
    /\ \E g \in GroupIdArgs : Contains(rd.res[1].group_ids, g) /\ Contains(rd.res[2].group_ids, g)
                               /\ FindById(fileDoc.groups, g) = 0

(* ============ properties of the state a callback consumes ============ *)

\* the callback r is past take() with the entry of its state
PastTake(r) == rq[r].kind = "callback" /\ IsSome(rq[r].taken)

\* this step is the take() of the callback r
TakeStep(r) == rq[r].pc = "take" /\ rq'[r].pc # "take"

\* this step is a later step of a callback: the exchange, the claims check or the
\* creation of the session
LaterCallbackStep(r) ==
    /\ rq[r].kind = "callback" /\ rq[r].pc \in {"exchange", "claims_check", "create"}
    /\ rq'[r] # rq[r]

\* C39: a callback removes the pending entry of its state before it calls
\* exchange_code, so the entry is gone while and after the exchange and the claims
\* check, whether they succeed or fail; a callback whose take() found nothing is
\* rejected without an exchange, so a second callback with the same state never
\* reaches the token endpoint; and a take() leaves the entries of other states as they
\* were, as do the later steps of a callback.
C39_StateConsumedBeforeExchange ==
    /\ [](\A r \in Requests :
            /\ PastTake(r) => Unwrap(rq[r].state) \notin DOMAIN pending_oauth
            /\ Exchanged(r) => PastTake(r)
            /\ (rq[r].kind = "callback" /\ rq[r].pc \in {"exchange", "claims_check", "create"})
                   => PastTake(r)
            /\ (rq[r].kind = "callback" /\ rq[r].pc = "done" /\ rq[r].taken = None)
                   => rq[r].exchange = "none" /\ rq[r].status = 500)
    /\ [][\A r \in Requests :
            /\ TakeStep(r) =>
                  /\ DOMAIN pending_oauth' = DOMAIN pending_oauth \ {Unwrap(rq[r].state)}
                  /\ \A t \in DOMAIN pending_oauth' : pending_oauth'[t] = pending_oauth[t]
            /\ LaterCallbackStep(r) => pending_oauth' = pending_oauth]_vars

\* a callback consumed its state and failed the exchange; a second callback with the
\* same state was rejected without an exchange; the entry of another login is still
\* pending
C39_Witness ==
    \E r1 \in Requests : \E r2 \in Requests \ {r1} :
        /\ PastTake(r1) /\ rq[r1].pc = "done" /\ rq[r1].exchange = "OidcTokenExchange"
        /\ ~rq[r1].raced
        /\ rq[r2].kind = "callback" /\ rq[r2].pc = "done" /\ rq[r2].state = rq[r1].state
        /\ rq[r2].taken = None /\ rq[r2].exchange = "none" /\ rq[r2].status = 500
        /\ \E t \in DOMAIN pending_oauth : t # Unwrap(rq[r1].state)

(* ================= properties of the router's layer ================== *)

\* the request is on a route of /api/entries or /api/groups
OnAdminRoute == hreq.router = "api"

\* the handler of the request's route is running or has run
InHandler == hreq.pc = "handler" \/ hreq.ran # "none"

\* this step is require_session letting the request through
PassStep == ~hreq.passed /\ hreq'.passed

\* this step is the arrival of a request
ArriveStep == hreq.pc \in {"none", "done"} /\ hreq'.pc \notin {"none", "done"}

\* C40: the handler of a route of /api/entries or /api/groups runs, and so a mutation
\* of the store is issued over HTTP, only for a request that require_session let
\* through, and require_session lets a request through only if its session cookie
\* names a session that is in the table, was not logged out and expires after the
\* moment of the check; a request on a forward-auth or /auth route goes to its handler
\* whatever cookie it carries and is never answered by require_session.
C40_AdminApiSessionGated ==
    /\ []((OnAdminRoute /\ InHandler) =>
             /\ hreq.passed
             /\ IsSome(hreq.session_id)
             /\ Unwrap(hreq.session_id) \in DOMAIN createdAt)
    /\ [](hreq.ran \in MutatingHandlers => hreq.passed)
    /\ [](hreq.ran # "none" => hreq.ran = hreq.handler)
    /\ []((hreq.pc # "none" /\ ~OnAdminRoute) =>
             /\ hreq.pc # "require_session"
             /\ ~hreq.passed
             /\ hreq.status # 401)
    /\ [][PassStep =>
             /\ hreq.pc = "require_session"
             /\ IsSome(hreq.session_id)
             /\ Unwrap(hreq.session_id) \in DOMAIN sessions
             /\ Unwrap(hreq.session_id) \notin removedIds
             /\ sessions[Unwrap(hreq.session_id)].expires_at > clock]_vars
    /\ [][ArriveStep =>
             /\ hreq'.router \in {"auth", "forward_auth"} => hreq'.pc = "handler"
             /\ hreq'.router = "api" => hreq'.pc = "require_session"]_vars

\* DELETE /api/groups/{id} ran for a request whose session was there at the check and
\* was logged out before the handler ran
C40_Witness ==
    /\ hreq.ran = "groups::delete" /\ hreq.passed
    /\ Unwrap(hreq.session_id) \in removedIds
    /\ sessions = EmptyMap

(* ================== properties of the sync task ==================== *)

\* the sync task is in one of its two loops or setting up the watch
TaskLoops == sync.task \in {"setup", "notify", "poll"}

\* this step receives an Ok watch event or a poll tick
ReceiveStep == sync'.received = sync.received + 1

\* this step ends the watch: it could not be set up, or its channel closed
WatchEndStep == sync.task \in {"setup", "notify"} /\ sync'.task \notin {"setup", "notify"}
                /\ sync'.alive

\* while the Store lives its sync task is in one of its loops; the end of the watch,
\* at set-up or later, starts the poll loop; each Ok event received and each tick
\* calls the reload, which goes on to read the file
SyncTaskKeepsReloading ==
    /\ [](sync.alive => TaskLoops)
    /\ [](sync.invoked = sync.received)
    /\ [][WatchEndStep => sync'.task = "poll"]_vars
    /\ [][ReceiveStep => (sync'.invoked = sync.invoked + 1 /\ spc[Server] = "idle"
                            /\ spc'[Server] = "read" /\ sdata'[Server] = fileDoc)]_vars

\* once the Store is dropped its cache and cache version are never replaced
NoReplacementAfterDrop ==
    [][~sync.alive => (data'[Server] = data[Server]
                          /\ last_modified'[Server] = last_modified[Server])]_vars

ReplaceStep ==
    data'[Server] # data[Server] \/ last_modified'[Server] # last_modified[Server]

TaskHoldsLock == pc[Server] \in {"read", "truncated", "written"}

\* the last caller was dropped after its blocking task had taken the file lock
DroppedAfterLocking == cancelledAt \in {"read", "truncated", "written"}

\* the file holds a whole document and nobody holds its lock
FileWholeAndFree == content = "whole" /\ xlock = "none"

\* in every state: the file lacks bytes only while the blocking task that truncated it
\* holds the lock and is about to write; the lock is held only by a running blocking
\* task; a task past its write has left the whole document it computed; and what a
\* dropped call was to do is in the file
CompleteOrRunning ==
    /\ content # "whole" => (pc[Server] = "truncated" /\ xlock = Server)
    /\ xlock = Server <=> TaskHoldsLock
    /\ pc[Server] \in {"written", "unlocked"} => (content = "whole" /\ fileDoc = mres[Server].data)
    /\ pc[Server] \in {"idle", "io", "unlocked"} => FileWholeAndFree
    /\ (pc[Server] = "idle" /\ last[Server].res = "dropped") =>
          /\ last[Server].op = "create_entry" => FindByName(fileDoc.entries, last[Server].name) # 0
          /\ lastWriter = Server

\* C33: once a mutation has taken the exclusive file lock, dropping its caller does not
\* stop it: the blocking task applies the closure, writes the whole document and
\* releases the lock, so the file is never left truncated, partly written or locked.
C33_RunToCompletion ==
    /\ []CompleteOrRunning
    /\ (xlock = Server) ~> FileWholeAndFree

\* the caller was dropped when the file had just been truncated; the task has ended, the
\* file holds the whole new document, unlocked, and the cache still holds the old one
C33_Witness ==
    /\ cancelledAt = "truncated"
    /\ pc[Server] = "idle" /\ last[Server].res = "dropped"
    /\ FileWholeAndFree
    /\ fileDoc # data[Server]

\* the caller of the last mutation was dropped after the file was written; the task has
\* ended and the cache does not hold the document of the file
StaleAfterDrop ==
    /\ pc[Server] = "idle" /\ last[Server].res = "dropped"
    /\ cancelledAt \in {"written", "unlocked"}
    /\ data[Server] # fileDoc

\* C38: when the caller of a mutation is dropped after the blocking task has written the
\* file and before the cache is replaced, the cache is stale; the reloads that follow
\* make the cache equal to the file: the Store does not stay stale for ever.
C38_RecoveryAfterCancel == StaleAfterDrop ~> (data[Server] = fileDoc)

(* ============ properties of the base URL and the redirect URI ============ *)

\* str without the slashes at its end
WithoutTrailingSlashes(str) ==
    LET keep == {i \in DOMAIN str : str[i] # "/"}
    IN  IF keep = {} THEN <<>>
        ELSE SubSeq(str, 1, CHOOSE i \in keep : \A j \in keep : j <= i)

\* the redirect URI for the template t and the base URL b
ExpectedRedirect(t, b) ==
    IF t # <<>> /\ t[1] \in HttpPrefixed THEN t ELSE WithoutTrailingSlashes(b) \o t

\* C24: for every base URL b and every template t, authorize_url(b) and
\* exchange_code(_, _, b, _) come to the same redirect URI or fail alike; the URI is t
\* when t starts with http, whatever b is, and otherwise b without the slashes at its
\* end followed by t; the calls fail exactly when that string is no absolute URL.
C24_RedirectUriResolution ==
    ub.phase = "resolved" =>
        LET expected == ExpectedRedirect(ub.redirect_uri_template, ub.arg)
        IN  /\ ub.authorize = ub.exchange
            /\ ub.authorize.res \in {"Ok", "OidcDiscovery"}
            /\ ub.authorize.res = "Ok" => ub.authorize.data = expected
            /\ ub.authorize.res = "Ok" <=> RedirectUrl_new(expected).res = "Ok"

\* a base URL with slashes at its end and a relative template gave a redirect URI
\* without those slashes
C24_Witness ==
    /\ ub.phase = "resolved"
    /\ ub.arg # <<>> /\ ub.arg[Len(ub.arg)] = "/"
    /\ ub.redirect_uri_template # <<>> /\ ub.redirect_uri_template[1] = "/"
    /\ ub.authorize.res = "Ok"
    /\ ub.exchange.res = "Ok"
    /\ ub.authorize.data # ub.arg \o ub.redirect_uri_template

\* C25: with external_base_url = auto, the redirect URI that the callback sends to the
\* token endpoint is the redirect_uri that the login put into the authorization URL.
C25_RedirectUriConsistent ==
    (ub.phase = "callback" /\ ub.external_base_url = Auto) =>
        ub.callback_redirect = ub.login_redirect

\* the host and protocol each source offers, as written: Forwarded's first node without
\* quotes, X-Forwarded-Host and -Proto, Host
HostsOffered(h) ==
    <<IF IsSome(h.forwarded) /\ Unwrap(h.forwarded) # <<>> /\ Unwrap(h.forwarded)[1].ok
      THEN Unquoted(Unwrap(h.forwarded)[1].host) ELSE None,
      IF IsSome(h.x_forwarded_host) THEN Some(Trim(Unwrap(h.x_forwarded_host))) ELSE None,
      IF IsSome(h.host) THEN Some(Trim(Unwrap(h.host))) ELSE None>>

ProtocolsOffered(h) ==
    <<IF IsSome(h.forwarded) /\ Unwrap(h.forwarded) # <<>> /\ Unwrap(h.forwarded)[1].ok
      THEN Unquoted(Unwrap(h.forwarded)[1].protocol) ELSE None,
      IF IsSome(h.x_forwarded_proto) THEN Some(Trim(Unwrap(h.x_forwarded_proto))) ELSE None>>

\* the first value offered that is not empty
FirstNonEmpty(offers) ==
    FindMap([i \in DOMAIN offers |->
                IF IsSome(offers[i]) /\ Unwrap(offers[i]) # <<>> THEN offers[i] ELSE None])

\* the login resolved its base URL in Auto mode
AutoResolved == ub.phase \in {"login", "callback"} /\ ub.external_base_url = Auto

\* str ends with the text tail
EndsWith(str, tail) ==
    Len(str) >= Len(tail) /\ SubSeq(str, Len(str) - Len(tail) + 1, Len(str)) = tail

\* str starts with the text head
StartsWith(str, head) == Len(str) >= Len(head) /\ SubSeq(str, 1, Len(head)) = head

\* C29: in Auto mode the host of the base URL is the first non-empty host among
\* Forwarded (first node), X-Forwarded-Host and Host, and the protocol is the first
\* non-empty protocol among Forwarded proto and X-Forwarded-Proto, each chosen on its
\* own; an empty value of an earlier source does not shadow a later non-empty one.
C29_SourcePriority ==
    AutoResolved =>
        LET host == FirstNonEmpty(HostsOffered(ub.login_headers))
            protocol == FirstNonEmpty(ProtocolsOffered(ub.login_headers))
        IN  /\ IsSome(host) => EndsWith(ub.login_base, <<"://">> \o Unwrap(host))
            /\ IsSome(protocol) => StartsWith(ub.login_base, Unwrap(protocol) \o <<"://">>)

\* the loopback names
LoopbackNames ==
    {<<"localhost">>, <<"127.0.0.1">>, <<":", ":", "1">>, <<"[", ":", ":", "1", "]">>}

\* a loopback name, alone or followed by a colon and a port
IsLoopbackWithOrWithoutPort(host) ==
    \E name \in LoopbackNames :
        \/ host = name
        \/ Len(host) = Len(name) + 2 /\ StartsWith(host, name \o <<":">>)

\* C30: in Auto mode, when no source offers a protocol and a header gave the host, the
\* scheme is http for a loopback host (localhost, 127.0.0.1, ::1, [::1], with or
\* without a port) and https for any other; when no header gave a host, it is http.
C30_ProtocolInference ==
    (/\ AutoResolved
     /\ \A i \in 1..2 : ProtocolsOffered(ub.login_headers)[i] = None
     /\ \A i \in 1..3 : HostsOffered(ub.login_headers)[i] \notin {Some(<<>>)}) =>
        LET host == FirstNonEmpty(HostsOffered(ub.login_headers))
        IN  IF IsSome(host)
            THEN ub.login_base =
                    (IF IsLoopbackWithOrWithoutPort(Unwrap(host)) THEN <<"http">> ELSE <<"https">>)
                    \o <<"://">> \o Unwrap(host)
            ELSE StartsWith(ub.login_base, <<"http", "://">>)

\* the default port of a scheme
DefaultPortOf(scheme) == IF scheme = "https" THEN "443" ELSE "80"

\* no header of the request names a host
NoHostInHeaders(h) == \A i \in 1..3 : HostsOffered(h)[i] = None

\* C31: in Auto mode, when no header supplies a host, the base URL is
\* scheme://bind_host followed by :bind_port, the port being left out exactly when
\* bind_port is the default port of the result's scheme (80 for http, 443 for https).
C31_BindFallback ==
    (AutoResolved /\ NoHostInHeaders(ub.login_headers)) =>
        /\ Len(ub.login_base) >= 2
        /\ ub.login_base[1] \in {"http", "https"}
        /\ ub.login_base[2] = "://"
        /\ ub.login_base =
              <<ub.login_base[1], "://">> \o ub.host \o
              (IF ub.port = DefaultPortOf(ub.login_base[1]) THEN <<>> ELSE <<":", ub.port>>)


(* ============ properties of the claims check and the names ============ *)

\* the callback has run a configured script
CheckedByScript == cb.pc = "done" /\ IsSome(cb.claims_script)

\* the script's default export is a function that returned
Returned(script) == script.default_export = "function" /\ script.run = "returns"

\* a member a script may give for an optional text: none, undefined, null or a string
TextOrNothing(o) == ~IsSome(o) \/ Unwrap(o).t \in {"undefined", "null", "string"}

\* what the function returned is a ClaimsCheckResult: an object whose success is a
\* boolean and whose display_name, error and picture are texts when given
IsClaimsCheckResult(r) ==
    /\ r.t = "object"
    /\ r.success \in {Some(JBool(TRUE)), Some(JBool(FALSE))}
    /\ TextOrNothing(r.display_name) /\ TextOrNothing(r.error) /\ TextOrNothing(r.picture)

\* the error string the script gives, "Unknown error" when it gives none
ErrorGiven(r) ==
    IF IsSome(r.error) /\ Unwrap(r.error).t = "string" THEN Unwrap(r.error).v
    ELSE "Unknown error"

YieldsName(o) == IsSome(o) /\ Unwrap(o).t = "string"

\* the claims a display name is looked for in, in their order
NameClaims(claims) == <<claims.preferred_username, claims.nickname, claims.sub>>

\* C28: with no claims script configured, the session's display name is the value of
\* the first claim present among preferred_username, nickname, sub, in that order;
\* it is "Unknown" only when none of them yields a name; picture is the value of the
\* picture claim when present.
C28_DefaultDisplayName ==
    (cb.pc = "done" /\ ~IsSome(cb.claims_script)) =>
        LET present == SelectSeq(NameClaims(cb.claims), IsSome)
            named == SelectSeq(NameClaims(cb.claims), YieldsName)
        IN  /\ (present # <<>> /\ YieldsName(present[1])) =>
                  cb.session.display_name = Unwrap(present[1]).v
            /\ cb.session.display_name = "Unknown" => named = <<>>
            /\ YieldsName(cb.claims.picture) =>
                  cb.session.picture = Some(Unwrap(cb.claims.picture).v)
            /\ ~IsSome(cb.claims.picture) => cb.session.picture = None

====
